---- MODULE Spec2Model ----
(***************************************************************************)
(* Model of the wiki-simulator server: the flat-file cache                 *)
(* (utils/fileCache.js), the valid-page registry (utils/validPages.js),    *)
(* the slug codec (utils/slugs.js) and the /wiki/:page and /api/search     *)
(* route handlers (server.js) together with generatePageContent            *)
(* (services/groq.js).                                                     *)
(*                                                                         *)
(* Strings are sequences of one-character strings.  Time is counted in     *)
(* hours.  The language-model collaborator is the environment: each call   *)
(* is pending until the environment answers it or makes it fail.           *)
(***************************************************************************)
EXTENDS Integers, Sequences, FiniteSets, TLC

\* ------------------------------------------------------------------ bounds

\* Latest clock value (hours since process start) the model explores.
MaxNow == 24
\* The same two for the specification of the image route, whose entries
\* live for a week.
ImageTickHours == 168
ImageMaxNow == 168
\* Hours by which one step of the clock advances.
TickHours == 24
\* Largest number of sections an outline answer carries.
MaxSections == 2

\* ------------------------------------------------------- program constants

\* isCached(key, maxAgeHours = 24, ...)
DefaultMaxAgeHours == 24
\* isCached(cacheKey, 168, true) in the image route
ImageMaxAgeHours == 168
\* .slice(0, 5) in generateSearchSuggestions
MaxSuggestions == 5

\* ------------------------------------------------------------ slug codec

Ws == {" "}
WordChars == {"a", "A", "_", "4", "1"}

toUpperCase(c) == IF c = "a" THEN "A" ELSE IF c = "é" THEN "É" ELSE c
toLowerCase(c) == IF c = "A" THEN "a" ELSE IF c = "É" THEN "é" ELSE c

RECURSIVE trimStart(_)
trimStart(s) ==
  IF s = <<>> THEN <<>>
  ELSE IF Head(s) \in Ws THEN trimStart(Tail(s)) ELSE s

RECURSIVE trimEnd(_)
trimEnd(s) ==
  IF s = <<>> THEN <<>>
  ELSE IF s[Len(s)] \in Ws THEN trimEnd(SubSeq(s, 1, Len(s) - 1)) ELSE s

\* String.prototype.trim
trim(s) == trimEnd(trimStart(s))

\* s.replace(/\s+/g, "_"): every maximal run of whitespace becomes one "_"
RECURSIVE replaceWsRuns(_)
replaceWsRuns(s) ==
  IF s = <<>> THEN <<>>
  ELSE IF Head(s) \in Ws
       THEN <<"_">> \o replaceWsRuns(trimStart(s))
       ELSE <<Head(s)>> \o replaceWsRuns(Tail(s))

\* s.replace(/[^\w_]/g, "")
stripNonWord(s) == SelectSeq(s, LAMBDA c : c \in WordChars)

\* The two variants of utils/slugs.js; a build holds exactly one of them.
SlugVariants == {"preserve", "titlecase"}

titleToWikipediaSlugIn(variant, title) ==
  IF variant = "preserve"
  THEN replaceWsRuns(trim(title))
  ELSE stripNonWord(replaceWsRuns(trim(title)))

\* slug.split("_").map(capitalise first, lower-case the rest).join(" ")
titleCaseWords(slug) ==
  [i \in 1..Len(slug) |->
     IF slug[i] = "_" THEN " "
     ELSE IF i = 1 \/ slug[i - 1] = "_" THEN toUpperCase(slug[i])
     ELSE toLowerCase(slug[i])]

wikipediaSlugToTitleIn(variant, slug) ==
  IF variant = "preserve"
  THEN [i \in 1..Len(slug) |-> IF slug[i] = "_" THEN " " ELSE slug[i]]
  ELSE titleCaseWords(slug)

\* ------------------------------------------------------------ input sets

\* Slugs that clients request.
ReqSlugs == { <<"A">>, <<"a">> }
\* Titles the language model answers with (canonical titles, suggestions).
LlmTitles == { <<"A">>, <<" ", "a", "-">> }

\* Page bodies.  A body is the title it was rendered for and the headings
\* of its sections, in the order they appear.
NoPage == [title |-> <<>>, heads |-> <<>>]
OldPage(slug) == [title |-> slug, heads |-> <<"old">>]

\* ------------------------------------------------------------------ state

VARIABLES
  now,            \* Date.now(), in hours
  dirExists,      \* the cache directory exists
  disk,           \* the cache files: file name -> [exists, ok, val, mtime]
  validPagesFile, \* cache/validPages.json: [exists, ok, pages, mtime]
  validPages,     \* the in-memory Set of utils/validPages.js
  variant,        \* which utils/slugs.js the build holds
  ret,            \* outcome of the last cache call made from outside
  req,            \* the request in flight on each connection
  regLog          \* what the registry call of the last step did

vars == <<now, dirExists, disk, validPagesFile, validPages, variant,
          ret, req, regLog>>

titleToWikipediaSlug(title) == titleToWikipediaSlugIn(variant, title)
wikipediaSlugToTitle(slug) == wikipediaSlugToTitleIn(variant, slug)

\* ------------------------------------------------------------- file cache

\* Cache keys: `${pre}_${slug}${suffix}`
Key(pre, slug) == [pre |-> pre, slug |-> slug, suffix |-> ""]
\* key + "_meta"
metaKey(key) == [key EXCEPT !.suffix = "_meta"]

\* Slugs that only a followed redirect asks for.
FollowedSlugs == { <<"4", "1">> }
WikiKeys == { Key("wiki", s) : s \in ReqSlugs \cup FollowedSlugs }
ImageKeys == { Key("image", <<"A">>) }
MetaKeys == { metaKey(k) : k \in ImageKeys }
\* Slugs of the images that articles reference; promptKey = `img_prompt_${slug}`
ImageSlugs == { <<"A">>, <<"a">> }
PromptKeys == { Key("img_prompt", s) : s \in ImageSlugs }

getCacheFilePath(key, isBinary) ==
  [key |-> key, ext |-> IF isBinary THEN ".bin" ELSE ".json"]

TextFiles == { getCacheFilePath(k, FALSE) : k \in WikiKeys }
BinFiles == { getCacheFilePath(k, TRUE) : k \in ImageKeys }
MetaFiles == { getCacheFilePath(k, FALSE) : k \in MetaKeys }
PromptFiles == { getCacheFilePath(k, FALSE) : k \in PromptKeys }
FileNames == TextFiles \cup BinFiles \cup MetaFiles \cup PromptFiles

\* promptData.  A prompt is a sequence of words; <<>> is null.
NoPrompt == [prompt |-> <<>>, ready |-> FALSE, articleTitle |-> <<>>]

Buffers == {"png1", "png2"}

\* JSON objects that travel as metadata.  map names the entries of the
\* metadata map; wrapped says that the object is not the map itself but the
\* record { key, metadata, timestamp, created } that holds it.
Metadata(map) == [wrapped |-> FALSE, map |-> map]
Metadatas == { Metadata("meta1") }
EmptyMetadata == Metadata("{}")
\* metaCacheData = { key, metadata, timestamp: Date.now(), created }
metaCacheData(key, metadata) == [wrapped |-> TRUE, map |-> metadata.map]

\* What a file of each family holds when it was never written.
BlankVal(f) ==
  IF f \in TextFiles THEN NoPage
  ELSE IF f \in PromptFiles THEN NoPrompt
  ELSE IF f \in BinFiles THEN "none" ELSE EmptyMetadata

Absent(f) == [exists |-> FALSE, ok |-> FALSE, val |-> BlankVal(f), mtime |-> 0]
Stored(v, t) == [exists |-> TRUE, ok |-> TRUE, val |-> v, mtime |-> t]
\* A file that cannot be read or does not parse as JSON.
Corrupt(f, t) == [exists |-> TRUE, ok |-> FALSE, val |-> BlankVal(f), mtime |-> t]

\* In every operator below, fault says that the file system refuses the
\* mkdir, write and unlink calls made during the operation (read-only
\* mount, full disk, lost permissions).

\* ensureCacheDir: mkdirSync runs only when the directory is missing, and
\* its error is not caught.  The second operator is the directory afterwards.
ensureCacheDirThrows(fault) == ~dirExists /\ fault
ensureCacheDir(fault) == dirExists \/ ~fault

\* isCached with the age left in milliseconds (the division forgotten).
isCached_millis(key, maxAgeHours, isBinary, fault, raced) ==
  LET f == disk[getCacheFilePath(key, isBinary)]
      ageMillis == (now - f.mtime) * 3600000
  IN  IF ensureCacheDirThrows(fault) THEN "throw"
      ELSE IF ~f.exists THEN "false"
      ELSE IF raced THEN "throw"
      ELSE IF ageMillis < maxAgeHours THEN "true" ELSE "false"

\* isCached with an inclusive bound on the age.
isCached_inclusive(key, maxAgeHours, isBinary, fault, raced) ==
  LET f == disk[getCacheFilePath(key, isBinary)]
      ageHours == now - f.mtime
  IN  IF ensureCacheDirThrows(fault) THEN "throw"
      ELSE IF ~f.exists THEN "false"
      ELSE IF raced THEN "throw"
      ELSE IF ageHours <= maxAgeHours THEN "true" ELSE "false"

\* isCached: "true", "false", or "throw".  It throws when ensureCacheDir
\* throws, and when the file that existsSync saw is gone at statSync
\* (raced: another process removed it in between); neither call is inside
\* a try block.
isCached(key, maxAgeHours, isBinary, fault, raced) ==
  LET f == disk[getCacheFilePath(key, isBinary)]
      ageHours == now - f.mtime
  IN  IF ensureCacheDirThrows(fault) THEN "throw"
      ELSE IF ~f.exists THEN "false"
      ELSE IF raced THEN "throw"
      ELSE IF ageHours < maxAgeHours THEN "true" ELSE "false"

Null == [out |-> "null", val |-> NoPage, meta |-> EmptyMetadata]
Thrown == [out |-> "throw", val |-> NoPage, meta |-> EmptyMetadata]

\* getCache that answers null for a text entry older than a day.
getCache_fresh(key, isBinary, fault) ==
  LET f == disk[getCacheFilePath(key, isBinary)]
  IN  IF ensureCacheDirThrows(fault) THEN Thrown
      ELSE IF ~f.exists \/ ~f.ok \/ isBinary THEN Null
      ELSE IF now - f.mtime >= DefaultMaxAgeHours THEN Null
      ELSE [out |-> "value", val |-> f.val, meta |-> EmptyMetadata]

\* getCache on the files d: [out, val, meta]; out is "value", "null" or
\* "throw".  Read and parse errors are caught inside; ensureCacheDir is
\* called before the try block.
getCache(key, isBinary, fault) ==
  LET d == disk
      f == d[getCacheFilePath(key, isBinary)]
      m == d[getCacheFilePath(metaKey(key), FALSE)]
  IN  IF ensureCacheDirThrows(fault) THEN Thrown
      ELSE IF ~f.exists THEN Null
      ELSE IF ~f.ok THEN Null
      ELSE IF isBinary
        THEN IF ~m.exists
               THEN [out |-> "value", val |-> f.val, meta |-> EmptyMetadata]
             ELSE IF ~m.ok THEN Null
             ELSE [out |-> "value", val |-> f.val, meta |-> m.val]
             \* metadata = JSON.parse(metaData): the whole sidecar object
        ELSE [out |-> "value", val |-> f.val, meta |-> EmptyMetadata]

\* setCache that opens the entry file with the flag "wx": an existing
\* entry makes the write fail.
setCacheOn_exclusive(d, key, content, metadata, isBinary, fault, sidecarFault) ==
  IF fault \/ d[getCacheFilePath(key, isBinary)].exists THEN d
  ELSE IF isBinary
    THEN [d EXCEPT ![getCacheFilePath(key, TRUE)] = Stored(content, now),
                   ![getCacheFilePath(metaKey(key), FALSE)] =
                       Stored(metaCacheData(key, metadata), now)]
    ELSE [d EXCEPT ![getCacheFilePath(key, FALSE)] = Stored(content, now)]

\* setCache on the files d, once ensureCacheDir has returned: the files
\* afterwards.  A failing writeFileSync throws and the error is caught.
\* fault: every write is refused.  sidecarFault: the write of the sidecar
\* is refused after the write of the buffer went through (disk full, the
\* sidecar not writable).
setCacheOn(d, key, content, metadata, isBinary, fault, sidecarFault) ==
  IF fault THEN d
  ELSE IF isBinary
    THEN IF sidecarFault
         THEN [d EXCEPT ![getCacheFilePath(key, TRUE)] = Stored(content, now)]
         ELSE [d EXCEPT ![getCacheFilePath(key, TRUE)] = Stored(content, now),
                        ![getCacheFilePath(metaKey(key), FALSE)] =
                            Stored(metaCacheData(key, metadata), now)]
    ELSE [d EXCEPT ![getCacheFilePath(key, FALSE)] = Stored(content, now)]

\* clearExpiredCache once ensureCacheDir has returned: a failing
\* unlinkSync throws, which ends the scan.
clearExpiredFiles(d, maxAgeHours, fault) ==
  LET cutoffTime == now - maxAgeHours
  IN  IF fault THEN d
      ELSE [f \in FileNames |->
              IF d[f].exists /\ d[f].mtime < cutoffTime THEN Absent(f) ELSE d[f]]

clearExpiredRegistry(file, maxAgeHours, fault) ==
  LET cutoffTime == now - maxAgeHours
  IN  IF ~fault /\ file.exists /\ file.mtime < cutoffTime
      THEN [exists |-> FALSE, ok |-> FALSE, pages |-> {}, mtime |-> 0]
      ELSE file

\* getCacheStats once ensureCacheDir has returned: fileCount.  readdirSync
\* and statSync run inside the try block.
getCacheStats(d, file) ==
  Cardinality({ f \in FileNames : d[f].exists }) + (IF file.exists THEN 1 ELSE 0)

\* ---------------------------------------------------- valid-page registry

NoRegFile == [exists |-> FALSE, ok |-> FALSE, pages |-> {}, mtime |-> 0]
RegFile(pages, t) == [exists |-> TRUE, ok |-> TRUE, pages |-> pages, mtime |-> t]
NoLog == [op |-> "none", title |-> <<>>, inserted |-> 0, saves |-> 0,
          failed |-> FALSE]

\* loadValidPages: a missing or unparsable file gives the empty set.
loadValidPages(file) == IF file.exists /\ file.ok THEN file.pages ELSE {}

\* The registry as the functions below transform it: the in-memory set,
\* the file, whether the directory exists, and the log of the running call.
Registry == [vp |-> validPages, file |-> validPagesFile, dir |-> dirExists,
             log |-> NoLog]

\* saveValidPages: ensureCacheDir and writeFileSync inside one try block.
saveValidPages(R, fault) ==
  [R EXCEPT !.file = IF fault THEN R.file ELSE RegFile(R.vp, now),
            !.dir = R.dir \/ ~fault,
            !.log.saves = @ + 1,
            !.log.failed = @ \/ fault]

\* isValidPage with the test inverted.
isValidPage_inverted(slug) == slug \notin validPages

isValidPage(slug) == slug \in validPages

\* addValidPage that starts a new Set instead of adding to the old one.
addValidPage_fresh(R, title, fault) ==
  LET slug == titleToWikipediaSlug(title)
      R0 == [R EXCEPT !.log = [NoLog EXCEPT !.op = "addValidPage",
                                             !.title = title]]
  IN  IF slug \notin R0.vp
      THEN saveValidPages([R0 EXCEPT !.vp = {slug}, !.log.inserted = 1], fault)
      ELSE R0

addValidPage(R, title, fault) ==
  LET slug == titleToWikipediaSlug(title)
      R0 == [R EXCEPT !.log = [NoLog EXCEPT !.op = "addValidPage",
                                             !.title = title]]
  IN  IF slug \notin R0.vp
      THEN saveValidPages([R0 EXCEPT !.vp = @ \cup {slug}, !.log.inserted = 1], fault)
      ELSE R0

\* linkedPages.forEach((pageTitle) => addValidPage(pageTitle))
RECURSIVE addValidPages(_, _, _)
addValidPages(R, titles, fault) ==
  IF titles = <<>> THEN R
  ELSE addValidPages(addValidPage(R, Head(titles), fault), Tail(titles), fault)

\* The forEach registering the titles as they are, not their slugs.
insertSuggestions_titles(R, suggestions) ==
  LET titles == { suggestions[i].title : i \in 1..Len(suggestions) } \ R.vp
  IN  [R EXCEPT !.vp = @ \cup titles, !.log.inserted = Cardinality(titles)]

\* The forEach of addSuggestionsToValid: insert, count, do not save.
RECURSIVE insertSuggestions(_, _)
insertSuggestions(R, suggestions) ==
  IF suggestions = <<>> THEN R
  ELSE LET slug == titleToWikipediaSlug(Head(suggestions).title)
           R1 == IF slug \notin R.vp
                 THEN [R EXCEPT !.vp = @ \cup {slug}, !.log.inserted = @ + 1]
                 ELSE R
       IN  insertSuggestions(R1, Tail(suggestions))

\* addSuggestionsToValid that saves whether or not anything was inserted.
addSuggestionsToValid_always(R, suggestions, fault) ==
  LET R0 == [R EXCEPT !.log = [NoLog EXCEPT !.op = "addSuggestionsToValid"]]
      R1 == insertSuggestions(R0, suggestions)
  IN  saveValidPages(R1, fault)

addSuggestionsToValid(R, suggestions, fault) ==
  LET R0 == [R EXCEPT !.log = [NoLog EXCEPT !.op = "addSuggestionsToValid"]]
      R1 == insertSuggestions(R0, suggestions)
  IN  IF R1.log.inserted > 0 THEN saveValidPages(R1, fault) ELSE R1

\* ------------------------------------------------------ request records

\* Connections.  The server specification takes one request at a time: the
\* next request arrives when the previous one has been answered.
Reqs == {1}
NoCalls == [validate |-> 0, rewrite |-> 0, outline |-> 0, infobox |-> 0,
            opening |-> 0, section |-> 0, suggest |-> 0,
            image |-> 0, prompts |-> 0]

\* What an image request or a prompt batch carries: the extension and the
\* aspect query of the URL, the arguments of generateWikiImage, the buffer
\* sent, the image references of the batch.
NoImg == [ext |-> "", aspect |-> "", subject |-> <<>>, prompt |-> <<>>,
          aspectRatio |-> "", buffer |-> "none", refs |-> <<>>]

\* A connection with no request on it.
Idle ==
  [kind |-> "none", pc |-> "idle", slug |-> <<>>,
   status |-> 200, body |-> <<>>, headersSent |-> FALSE, ended |-> FALSE,
   location |-> <<>>, json |-> <<>>,
   q |-> <<"undefined", <<>>>>,  \* req.query.q of a search: <<typeof, characters>>
   hops |-> 0,               \* redirects the client followed to make this request
   connected |-> TRUE,       \* the client still holds the connection
   hit |-> FALSE, wasValid |-> FALSE, isValidContent |-> "none",
   properSlug |-> <<>>,
   calls |-> NoCalls,
   failedCalls |-> 0,        \* collaborator calls of this request that threw
   infoboxS |-> "none",      \* generateInfobox(title) called by the route
   gpc |-> "none",           \* generatePageContent: step1, step2, resolved, rejected
   outline |-> "none", infoboxG |-> "none",
   sections |-> <<>>, opening |-> "none", secs |-> <<>>,
   sectionContents |-> <<>>, \* the answers of the section calls, by index
   markdownContent |-> <<>>, \* the sections of the article as assembled
   pageResult |-> NoPage, linkedPages |-> <<>>,
   effects |-> <<>>,         \* what lines 262-303 of the route did, in order
   img |-> NoImg]

Frag(kind, page) == [kind |-> kind, page |-> page]

\* res.status(code).send(body) / res.send(body) / res.json(body)
send(q, code, frag) ==
  [q EXCEPT !.status = code, !.body = Append(@, frag),
            !.headersSent = TRUE, !.ended = TRUE, !.pc = "done"]

\* res.write(chunk)
write(q, frag) == [q EXCEPT !.body = Append(@, frag), !.headersSent = TRUE]

\* The catch block answering 500 with the full error page in every case.
pageCatch_fullPage(q) == send(q, 500, Frag("errorPage", NoPage))

\* The catch block of the page route.
pageCatch(q) ==
  IF ~q.headersSent
  THEN send(q, 500, Frag("errorPage", NoPage))
  ELSE [write(q, Frag("errorWithoutDoctype", NoPage)) EXCEPT
          !.ended = TRUE, !.pc = "done"]

\* Outline headings, in the order the outline lists them.
Headings == <<"History", "Legacy", "Origins", "Impact">>
Outlines == { SubSeq(Headings, 1, n) : n \in 0..MaxSections }

\* The route issuing its calls without having written anything.
startGeneration_silent(q) ==
  [q EXCEPT
     !.pc = "generate",
     !.gpc = "step1", !.outline = "pending", !.infoboxG = "pending",
     !.infoboxS = "pending",
     !.calls.outline = @ + 1, !.calls.infobox = @ + 2]

\* The route from the title on: headers, the DOCTYPE chunk, then
\* Promise.all([generatePageContent(title), generateInfobox(title)]);
\* generatePageContent runs to its first await, which issues the outline
\* call and its own infobox call.
startGeneration(q) ==
  [write(q, Frag("doctype", NoPage)) EXCEPT
     !.pc = "generate",
     !.gpc = "step1", !.outline = "pending", !.infoboxG = "pending",
     !.infoboxS = "pending",
     !.calls.outline = @ + 1, !.calls.infobox = @ + 2]

\* Names bound where generatePageContent calls processMarkdownForWikiLinks:
\* its parameter and its locals; the module binds no `title`.
BoundInGeneratePageContent ==
  {"topic", "outline", "infoboxData", "sectionPromises", "openingParagraph",
   "sectionContents", "markdownContent", "linkedPages", "tableOfContents"}
\* Evaluating the argument list (markdownContent, title, "Main Content")
\* throws ReferenceError when one of the names is unbound.
processMarkdownArgsThrow ==
  \E name \in {"markdownContent", "title"} : name \notin BoundInGeneratePageContent

\* Punctuation of the fixed See-also entry, "(disambiguation)".
Disambiguation == <<" ", "-">>
RelatedTopics == <<"a", " ", "a">>

\* Step 3 of generatePageContent for a topic and its outline sections:
\* the assembled article and the linked pages, or the throw.
assembleArticle(topic, sections) ==
  IF processMarkdownArgsThrow
  THEN [out |-> "throw", content |-> NoPage, linkedPages |-> <<>>]
  ELSE [out |-> "value",
        content |-> [title |-> topic, heads |-> sections \o <<"See also">>],
        linkedPages |-> <<topic \o Disambiguation, RelatedTopics>>]

\* The text that generateSectionContent(topic, title, ...) answers.
NoContent == <<>>
sectionAnswer(title) == <<"about", title>>

\* Step 3 with the section contents in reverse order.
assembleMarkdown_reversed(sections, sectionContents) ==
  [i \in 1..Len(sections) |->
     <<"##", sections[i], sectionContents[Len(sections) + 1 - i]>>]

\* Step 3 of generatePageContent, outline.sections.forEach: each heading
\* followed by the content at its index.
assembleMarkdown(sections, sectionContents) ==
  [i \in 1..Len(sections) |-> <<"##", sections[i], sectionContents[i]>>]

\* generatePageContent rejects: its catch rethrows, and nothing reads the
\* answers of its calls that are still out; if the route is still awaiting
\* Promise.all, the route's catch block runs.
\* A rejection of generatePageContent that the route does not catch.
gpcReject_uncaught(q) ==
  [q EXCEPT !.gpc = "rejected", !.outline = "none",
            !.infoboxG = "none", !.opening = "none", !.secs = <<>>,
            !.sectionContents = <<>>]

gpcReject(q) ==
  LET q1 == [q EXCEPT !.gpc = "rejected", !.outline = "none",
                      !.infoboxG = "none", !.opening = "none", !.secs = <<>>,
                      !.sectionContents = <<>>]
  IN  IF q1.pc = "generate" THEN pageCatch(q1) ELSE q1

\* All of opening and sections have answered: assemble.
gpcAssemble(q) ==
  LET a == assembleArticle(wikipediaSlugToTitle(q.slug), q.sections)
      q1 == [q EXCEPT !.markdownContent =
                        assembleMarkdown(q.sections, q.sectionContents)]
  IN  IF a.out = "throw" THEN gpcReject(q1)
      ELSE [q1 EXCEPT !.gpc = "resolved", !.pageResult = a.content,
                      !.linkedPages = a.linkedPages]

\* Step 2 of generatePageContent: the opening call and one call per section.
gpcStep2(q) ==
  [q EXCEPT !.gpc = "step2", !.opening = "pending",
            !.secs = [i \in 1..Len(q.sections) |-> "pending"],
            !.sectionContents = [i \in 1..Len(q.sections) |-> NoContent],
            !.calls.opening = @ + 1,
            !.calls.section = @ + Len(q.sections)]

\* Lines 260-303 of the route, reached when both promises have resolved:
\* register the linked pages, send the page, cache it, register the title.
RouteReady(q) == q.pc = "generate" /\ q.gpc = "resolved" /\ q.infoboxS = "ok"

completePage(q) == q.pageResult

\* The order of lines 262-303: linked pages, res.write, res.end, setCache,
\* addValidPage(title).
RouteEffects == <<"addLinkedPages", "write", "end", "setCache", "addValidPage">>

finishResponse(q) ==
  [write(q, Frag("pageWithoutDoctype", completePage(q))) EXCEPT
     !.ended = TRUE, !.pc = "done", !.effects = RouteEffects]

finishRegistry(q, fault) ==
  addValidPage(addValidPages(Registry, q.linkedPages, fault),
               wikipediaSlugToTitle(q.slug), fault)

\* The state after a collaborator answer has turned request r into q.
Continue(r, q) ==
  IF RouteReady(q)
  THEN \E fault \in BOOLEAN :
       LET R == finishRegistry(q, fault)
       IN  /\ req' = [req EXCEPT ![r] = finishResponse(q)]
           /\ disk' = setCacheOn(disk, Key("wiki", q.slug), completePage(q),
                                 EmptyMetadata, FALSE, fault, FALSE)
           /\ validPages' = R.vp
           /\ validPagesFile' = R.file
           /\ dirExists' = R.dir
           /\ regLog' = R.log
  ELSE /\ req' = [req EXCEPT ![r] = q]
       /\ regLog' = NoLog
       /\ UNCHANGED <<disk, validPages, validPagesFile, dirExists>>

\* ------------------------------------------------- calls into the cache

NoKey == Key("", <<>>)
\* logged: the call caught an error and wrote it to console.error.
NoRet == [op |-> "none", key |-> NoKey, bin |-> FALSE, hours |-> 0,
          out |-> "none", val |-> NoPage, meta |-> EmptyMetadata,
          logged |-> FALSE]

MaxAges == {0, DefaultMaxAgeHours, ImageMaxAgeHours}
NewPages == { [title |-> <<"A">>, heads |-> <<"new">>],
              [title |-> <<"A">>, heads |-> <<"newer">>] }

\* raced: another process removes the entry between existsSync and statSync.
CallIsCached(key, maxAgeHours, isBinary, fault, raced) ==
  LET file == getCacheFilePath(key, isBinary)
      gone == raced /\ ~ensureCacheDirThrows(fault) /\ disk[file].exists
  IN  /\ ret' = [NoRet EXCEPT !.op = "isCached", !.key = key, !.bin = isBinary,
                              !.hours = maxAgeHours,
                              !.out = isCached(key, maxAgeHours, isBinary, fault, raced)]
      /\ dirExists' = ensureCacheDir(fault)
      /\ disk' = IF gone THEN [disk EXCEPT ![file] = Absent(file)] ELSE disk
      /\ UNCHANGED <<now, validPagesFile, validPages, variant, req, regLog>>

CallGetCache(key, isBinary, fault) ==
  LET r == getCache(key, isBinary, fault)
      f == disk[getCacheFilePath(key, isBinary)]
      m == disk[getCacheFilePath(metaKey(key), FALSE)]
  IN  /\ ret' = [NoRet EXCEPT !.op = "getCache", !.key = key, !.bin = isBinary,
                              !.out = r.out, !.val = r.val, !.meta = r.meta,
                              !.logged = /\ r.out = "null" /\ f.exists
                                         /\ ~f.ok \/ (isBinary /\ m.exists /\ ~m.ok)]
      /\ dirExists' = ensureCacheDir(fault)
      /\ UNCHANGED <<now, disk, validPagesFile, validPages, variant, req, regLog>>

CallSetCache(key, content, metadata, isBinary, fault, sidecarFault) ==
  /\ ret' = [NoRet EXCEPT !.op = "setCache", !.key = key, !.bin = isBinary,
                          !.out = IF ensureCacheDirThrows(fault) THEN "throw" ELSE "void",
                          !.val = content, !.meta = metadata,
                          !.logged = /\ ~ensureCacheDirThrows(fault)
                                     /\ fault \/ (isBinary /\ sidecarFault)]
  /\ dirExists' = ensureCacheDir(fault)
  /\ disk' = IF ensureCacheDirThrows(fault) THEN disk
             ELSE setCacheOn(disk, key, content, metadata, isBinary, fault,
                             sidecarFault)
  /\ UNCHANGED <<now, validPagesFile, validPages, variant, req, regLog>>

CallClearExpiredCache(maxAgeHours, fault) ==
  /\ ret' = [NoRet EXCEPT !.op = "clearExpiredCache", !.hours = maxAgeHours,
                          !.out = IF ensureCacheDirThrows(fault) THEN "throw" ELSE "void"]
  /\ dirExists' = ensureCacheDir(fault)
  /\ disk' = IF ensureCacheDirThrows(fault) THEN disk
             ELSE clearExpiredFiles(disk, maxAgeHours, fault)
  /\ validPagesFile' = IF ensureCacheDirThrows(fault) THEN validPagesFile
                       ELSE clearExpiredRegistry(validPagesFile, maxAgeHours, fault)
  /\ UNCHANGED <<now, validPages, variant, req, regLog>>

CallGetCacheStats(fault) ==
  /\ ret' = [NoRet EXCEPT !.op = "getCacheStats",
                          !.out = IF ensureCacheDirThrows(fault) THEN "throw" ELSE "value",
                          !.hours = IF ensureCacheDirThrows(fault) THEN 0
                                    ELSE getCacheStats(disk, validPagesFile)]
  /\ dirExists' = ensureCacheDir(fault)
  /\ UNCHANGED <<now, disk, validPagesFile, validPages, variant, req, regLog>>

\* ------------------------------------------------------------ environment

\* Time passes.
Tick ==
  /\ now + TickHours <= MaxNow
  /\ now' = now + TickHours
  /\ ret' = NoRet
  /\ regLog' = NoLog
  /\ UNCHANGED <<dirExists, disk, validPagesFile, validPages, variant, req>>

\* ------------------------------------------------------ GET /wiki/:page

\* A connection can take a request when nothing of an earlier one runs on.
Free(q) == q.pc \in {"idle", "done"} /\ q.gpc \notin {"step1", "step2"}

\* The route up to its first await.  malformed: decodeURIComponent throws,
\* so the request has no decoded slug.  The server is the only process that
\* touches the cache directory while it handles a request.
pageRouteEntry(slug, malformed, fault) ==
  LET q0 == [Idle EXCEPT !.kind = "page", !.slug = slug]
      cacheKey == Key("wiki", slug)
      hit == isCached(cacheKey, DefaultMaxAgeHours, FALSE, fault, FALSE)
      cachedPage == getCache(cacheKey, FALSE, fault)
  IN  IF malformed THEN pageCatch([Idle EXCEPT !.kind = "page"])
      ELSE IF hit = "throw" THEN pageCatch(q0)
      ELSE IF hit = "true" /\ cachedPage.out = "value"
        THEN send([q0 EXCEPT !.hit = TRUE], q0.status, Frag("cached", cachedPage.val))
      ELSE IF ~isValidPage(slug)
        THEN [q0 EXCEPT !.pc = "validate", !.calls.validate = @ + 1]
      ELSE startGeneration([q0 EXCEPT !.wasValid = TRUE])

PageRequest(r, slug, malformed, fault) ==
  /\ Free(req[r])
  /\ req' = [req EXCEPT ![r] = pageRouteEntry(slug, malformed, fault)]
  /\ dirExists' = IF malformed THEN dirExists ELSE ensureCacheDir(fault)
  /\ regLog' = NoLog
  /\ UNCHANGED <<now, disk, validPagesFile, validPages, variant, ret>>

\* validateReturn that goes on to the rewrite call after a rejection.
validateReturn_lenient(q, answer) ==
  IF answer = "fail" THEN pageCatch([q EXCEPT !.failedCalls = @ + 1])
  ELSE [q EXCEPT !.isValidContent = IF answer = "valid" THEN "true" ELSE "false",
                 !.pc = "rewrite", !.calls.rewrite = @ + 1]

\* validateContent answers: "valid", "invalid", or "fail" (the call throws).
validateReturn(q, answer) ==
  IF answer = "fail" THEN pageCatch([q EXCEPT !.failedCalls = @ + 1])
  ELSE IF answer = "invalid"
    THEN send([q EXCEPT !.isValidContent = "false"], 404, Frag("notFound", NoPage))
  ELSE [q EXCEPT !.isValidContent = "true", !.pc = "rewrite",
                 !.calls.rewrite = @ + 1]

ValidateReturn(r, answer) ==
  /\ req[r].pc = "validate"
  /\ req' = [req EXCEPT ![r] = validateReturn(req[r], answer)]
  /\ regLog' = NoLog
  /\ UNCHANGED <<now, dirExists, disk, validPagesFile, validPages, variant, ret>>

\* redirect after the DOCTYPE chunk has been written.
redirect_late(q, properSlug) ==
  [send(write(q, Frag("doctype", NoPage)), 301, Frag("redirect", NoPage)) EXCEPT
     !.location = properSlug]

\* res.redirect(301, `/wiki/${encodeURIComponent(properSlug)}`)
redirect(q, properSlug) ==
  [send(q, 301, Frag("redirect", NoPage)) EXCEPT !.location = properSlug]

\* rewriteSlugToTitle on the model's answer: the trimmed answer; an empty
\* one makes it throw (RewriteFails).
rewriteSlugToTitle(response) == trim(response)

\* The route generating under the requested slug whatever the canonical one.
rewriteReturn_noRedirect(q, properTitle) ==
  startGeneration([q EXCEPT !.properSlug = titleToWikipediaSlug(properTitle)])

\* rewriteSlugToTitle answered properTitle: lines 227-240 and on.
rewriteReturn(q, properTitle) ==
  LET properSlug == titleToWikipediaSlug(properTitle)
      q1 == [q EXCEPT !.properSlug = properSlug]
  IN  IF properSlug # q.slug THEN redirect(q1, properSlug)
      ELSE startGeneration(q1)

RewriteReturn(r, response, fault) ==
  LET properTitle == rewriteSlugToTitle(response)
      R == addValidPage(Registry, properTitle, fault)
  IN  /\ req[r].pc = "rewrite"
      /\ req' = [req EXCEPT ![r] = rewriteReturn(req[r], properTitle)]
      /\ validPages' = R.vp
      /\ validPagesFile' = R.file
      /\ dirExists' = R.dir
      /\ regLog' = R.log
      /\ UNCHANGED <<now, disk, variant, ret>>

\* rewriteSlugToTitle throws (network error, empty answer).
RewriteFails(r) ==
  /\ req[r].pc = "rewrite"
  /\ req' = [req EXCEPT ![r] = pageCatch([req[r] EXCEPT !.failedCalls = @ + 1])]
  /\ regLog' = NoLog
  /\ UNCHANGED <<now, dirExists, disk, validPagesFile, validPages, variant, ret>>

\* A collaborator call of generation threw.
failed(q, ok) == IF ok THEN q ELSE [q EXCEPT !.failedCalls = @ + 1]

\* The route going on without an infobox when generateInfobox throws.
infoboxReturn_degrade(q, ok) == [q EXCEPT !.infoboxS = "ok"]

\* The route's own generateInfobox(title) answers or throws.
infoboxReturn(q, ok) ==
  IF ok THEN [q EXCEPT !.infoboxS = "ok"]
  ELSE pageCatch([q EXCEPT !.infoboxS = "failed"])

InfoboxReturn(r, ok) ==
  /\ req[r].pc = "generate"
  /\ req[r].infoboxS = "pending"
  /\ Continue(r, infoboxReturn(failed(req[r], ok), ok))
  /\ UNCHANGED <<now, variant, ret>>

\* generateArticleOutline answers with an outline, or throws.
outlineReturn(q, ok, sections) ==
  IF ~ok THEN gpcReject(q)
  ELSE LET q1 == [q EXCEPT !.outline = "ok", !.sections = sections]
       IN  IF q1.infoboxG = "ok" THEN gpcStep2(q1) ELSE q1

OutlineReturn(r, ok, sections) ==
  /\ req[r].gpc = "step1"
  /\ req[r].outline = "pending"
  /\ Continue(r, outlineReturn(failed(req[r], ok), ok, sections))
  /\ UNCHANGED <<now, variant, ret>>

\* The generateInfobox call inside generatePageContent answers or throws.
innerInfoboxReturn(q, ok) ==
  IF ~ok THEN gpcReject(q)
  ELSE LET q1 == [q EXCEPT !.infoboxG = "ok"]
       IN  IF q1.outline = "ok" THEN gpcStep2(q1) ELSE q1

InnerInfoboxReturn(r, ok) ==
  /\ req[r].gpc = "step1"
  /\ req[r].infoboxG = "pending"
  /\ Continue(r, innerInfoboxReturn(failed(req[r], ok), ok))
  /\ UNCHANGED <<now, variant, ret>>

Step2Done(q) == q.opening = "ok" /\ \A i \in 1..Len(q.secs) : q.secs[i] = "ok"

step2Return(q, ok) ==
  IF ~ok THEN gpcReject(q)
  ELSE IF Step2Done(q) THEN gpcAssemble(q) ELSE q

\* generateOpeningParagraph answers or throws.
OpeningReturn(r, ok) ==
  /\ req[r].gpc = "step2"
  /\ req[r].opening = "pending"
  /\ Continue(r, step2Return([failed(req[r], ok) EXCEPT !.opening = "ok"], ok))
  /\ UNCHANGED <<now, variant, ret>>

\* generateSectionContent for section i answers or throws.
SectionReturn(r, i, ok) ==
  /\ req[r].gpc = "step2"
  /\ i \in 1..Len(req[r].secs)
  /\ req[r].secs[i] = "pending"
  /\ Continue(r, step2Return(
                   [failed(req[r], ok) EXCEPT
                      !.secs[i] = "ok",
                      !.sectionContents[i] =
                        IF ok THEN sectionAnswer(req[r].sections[i])
                        ELSE NoContent],
                   ok))
  /\ UNCHANGED <<now, variant, ret>>

\* ------------------------------------------------------ GET /api/search

\* Answers of the model to a search: lines, some of them blank.
SearchResponses ==
  { <<>>,
    << <<"A">> >>,
    << <<" ">>, <<"A">>, <<" ", "a", "-">> >>,
    << <<"A">>, <<"A">>, <<"A">>, <<"A">>, <<"A">>, <<"a", "-">> >> }

\* .split("\n").filter(nonblank).slice(0, 5).map(title, slug)
parseSuggestions(lines) ==
  LET kept == SelectSeq(lines, LAMBDA l : Len(trim(l)) > 0)
      cut == SubSeq(kept, 1, IF Len(kept) < MaxSuggestions THEN Len(kept)
                             ELSE MaxSuggestions)
  IN  [i \in 1..Len(cut) |->
         [title |-> trim(cut[i]), slug |-> titleToWikipediaSlug(trim(cut[i]))]]

\* req.query.q: absent, an array (?q=a&q=b), or a string.
Queries ==
  {<<"undefined", <<>>>>, <<"object", <<>>>>,
   <<"string", <<>>>>, <<"string", <<" ", " ">>>>, <<"string", <<" ", "a">>>>,
   <<"string", <<"a", "a">>>>, <<"string", <<" ", "a", "A", " ">>>>}

\* The guard of the route, taking the length of q before trimming.
queryAccepted_untrimmed(q) ==
  q[1] = "string" /\ q[2] # <<>> /\ Len(q[2]) >= 2

\* !(!q || typeof q !== "string" || q.trim().length < 2)
queryAccepted(q) ==
  q[1] # "undefined" /\ q[2] # <<>> /\ q[1] = "string" /\ Len(trim(q[2])) >= 2

\* The route up to its await: a rejected query answers [] at once.
searchRouteEntry(q) ==
  IF queryAccepted(q)
  THEN [Idle EXCEPT !.kind = "search", !.q = q, !.pc = "suggest",
                    !.calls.suggest = 1]
  ELSE send([Idle EXCEPT !.kind = "search", !.q = q], 200,
            Frag("json", NoPage))

SearchRequest(r, q) ==
  /\ Free(req[r])
  /\ req' = [req EXCEPT ![r] = searchRouteEntry(q)]
  /\ regLog' = NoLog
  /\ UNCHANGED <<now, dirExists, disk, validPagesFile, validPages, variant, ret>>

\* generateSearchSuggestions returns: the parsed lines, or [] when the call
\* threw (it catches).  Then addSuggestionsToValid and res.json.
SuggestReturn(r, ok, lines, fault) ==
  LET suggestions == IF ok THEN parseSuggestions(lines) ELSE <<>>
      R == addSuggestionsToValid(Registry, suggestions, fault)
  IN  /\ req[r].pc = "suggest"
      /\ req' = [req EXCEPT ![r] =
            send([failed(req[r], ok) EXCEPT !.json = suggestions], 200,
                 Frag("json", NoPage))]
      /\ validPages' = R.vp
      /\ validPagesFile' = R.file
      /\ dirExists' = R.dir
      /\ regLog' = R.log
      /\ UNCHANGED <<now, disk, variant, ret>>

\* ------------------------------------------------------------------ Init

\* Cache files a previous run left behind: none, or one page entry that is
\* fresh, expired or unreadable.
NoFiles == [f \in FileNames |-> Absent(f)]
LeftEntries(s) ==
  { Stored(OldPage(s), 0 - 1),
    Stored(OldPage(s), 0 - DefaultMaxAgeHours),
    Corrupt(getCacheFilePath(Key("wiki", s), FALSE), 0 - 1) }
LeftPageFiles ==
  {NoFiles} \cup
  UNION { { [NoFiles EXCEPT ![getCacheFilePath(Key("wiki", s), FALSE)] = e] :
              e \in LeftEntries(s) } : s \in {<<"A">>} }

LeftRegFiles ==
  { NoRegFile, RegFile({<<"A">>}, 0 - 1),
    [exists |-> TRUE, ok |-> FALSE, pages |-> {}, mtime |-> 0 - 1] }

\* The state once the modules are loaded: loadValidPages has run.  The
\* cache directory is missing only if mkdirSync failed at start-up.
Init ==
  /\ now = 0
  /\ variant \in SlugVariants
  /\ dirExists \in BOOLEAN
  /\ disk \in (IF dirExists THEN LeftPageFiles ELSE {NoFiles})
  /\ validPagesFile \in (IF dirExists THEN LeftRegFiles ELSE {NoRegFile})
  /\ validPages = loadValidPages(validPagesFile)
  /\ req = [r \in Reqs |-> Idle]
  /\ ret = NoRet
  /\ regLog = NoLog

Next ==
  \/ \E r \in Reqs, slug \in ReqSlugs, malformed \in BOOLEAN, fault \in BOOLEAN :
        PageRequest(r, slug, malformed, fault)
  \/ \E r \in Reqs, answer \in {"valid", "invalid", "fail"} : ValidateReturn(r, answer)
  \/ \E r \in Reqs, response \in LlmTitles, fault \in BOOLEAN :
        RewriteReturn(r, response, fault)
  \/ \E r \in Reqs : RewriteFails(r)
  \/ \E r \in Reqs, ok \in BOOLEAN : InfoboxReturn(r, ok)
  \/ \E r \in Reqs, ok \in BOOLEAN, sections \in Outlines :
        OutlineReturn(r, ok, sections)
  \/ \E r \in Reqs, ok \in BOOLEAN : InnerInfoboxReturn(r, ok)
  \/ \E r \in Reqs, ok \in BOOLEAN : OpeningReturn(r, ok)
  \/ \E r \in Reqs, i \in 1..MaxSections, ok \in BOOLEAN : SectionReturn(r, i, ok)
  \/ \E r \in Reqs, q \in Queries : SearchRequest(r, q)
  \/ \E r \in Reqs, ok \in BOOLEAN, lines \in SearchResponses, fault \in BOOLEAN :
        SuggestReturn(r, ok, lines, fault)
  \/ Tick

Spec == Init /\ [][Next]_vars

\* ------------------------------------------- the cache module on its own

\* Calls the server makes: text entries for pages, binary entries for images.
CachePageKeys == { Key("wiki", <<"A">>) }
CacheCalls ==
  { [key |-> k, bin |-> FALSE] : k \in CachePageKeys } \cup
  { [key |-> k, bin |-> TRUE] : k \in ImageKeys }

\* Image entries a previous run left behind: buffer with its sidecar, with
\* an unreadable sidecar, or with none.
LeftImageFiles ==
  LET bin == getCacheFilePath(Key("image", <<"A">>), TRUE)
      meta == getCacheFilePath(metaKey(Key("image", <<"A">>)), FALSE)
  IN  { [NoFiles EXCEPT ![bin] = Stored("png1", 0 - 1),
                        ![meta] = Stored(metaCacheData(Key("image", <<"A">>),
                                                       Metadata("meta1")), 0 - 1)],
        [NoFiles EXCEPT ![bin] = Stored("png1", 0 - 1),
                        ![meta] = Corrupt(meta, 0 - 1)],
        [NoFiles EXCEPT ![bin] = Stored("png1", 0 - 1)] }

CacheInit ==
  /\ now = 0
  /\ variant = "preserve"
  /\ dirExists \in BOOLEAN
  /\ disk \in (IF dirExists THEN LeftPageFiles \cup LeftImageFiles ELSE {NoFiles})
  /\ validPagesFile \in (IF dirExists THEN LeftRegFiles ELSE {NoRegFile})
  /\ validPages = loadValidPages(validPagesFile)
  /\ req = [r \in Reqs |-> Idle]
  /\ ret = NoRet
  /\ regLog = NoLog

CacheNext ==
  \/ \E c \in CacheCalls, maxAgeHours \in MaxAges, fault \in BOOLEAN, raced \in BOOLEAN :
        CallIsCached(c.key, maxAgeHours, c.bin, fault, raced)
  \/ \E c \in CacheCalls, fault \in BOOLEAN : CallGetCache(c.key, c.bin, fault)
  \/ \E key \in CachePageKeys, content \in NewPages, fault \in BOOLEAN :
        CallSetCache(key, content, EmptyMetadata, FALSE, fault, FALSE)
  \/ \E key \in ImageKeys, buffer \in Buffers, metadata \in Metadatas,
        fault \in BOOLEAN, sidecarFault \in BOOLEAN :
        CallSetCache(key, buffer, metadata, TRUE, fault, sidecarFault)
  \/ \E maxAgeHours \in MaxAges, fault \in BOOLEAN :
        CallClearExpiredCache(maxAgeHours, fault)
  \/ \E fault \in BOOLEAN : CallGetCacheStats(fault)
  \/ Tick

CacheSpec == CacheInit /\ [][CacheNext]_vars

\* ------------------------------------------------- image prompt records

\* isCached(promptKey, 168) in getImagePrompt
PromptMaxAgeHours == 168

promptKey(imageSlug) == Key("img_prompt", imageSlug)

\* Lists of image references, each reference by its slug.
RefLists == { << <<"A">> >>, << <<"A">>, <<"a">> >> }
ArticleTitle == <<"A">>

\* storeImagePrompt once ensureCacheDir has returned: the files afterwards.
storeImagePrompt(d, imageSlug, prompt, articleTitle, fault) ==
  setCacheOn(d, promptKey(imageSlug),
             [prompt |-> prompt, ready |-> TRUE, articleTitle |-> articleTitle],
             EmptyMetadata, FALSE, fault, FALSE)

\* markPromptsGenerating once ensureCacheDir has returned: every reference
\* gets a record with prompt null and ready false, whatever it had.
RECURSIVE markPromptsGenerating(_, _, _, _)
markPromptsGenerating(d, imageReferences, articleTitle, fault) ==
  IF imageReferences = <<>> THEN d
  ELSE markPromptsGenerating(
         setCacheOn(d, promptKey(Head(imageReferences)),
                    [prompt |-> <<>>, ready |-> FALSE,
                     articleTitle |-> articleTitle],
                    EmptyMetadata, FALSE, fault, FALSE),
         Tail(imageReferences), articleTitle, fault)

\* getImagePrompt without the branch for a record that is not ready.
getImagePrompt_readyOnly(imageSlug, fault) ==
  LET hit == isCached(promptKey(imageSlug), PromptMaxAgeHours, FALSE, fault, FALSE)
      promptData == getCache(promptKey(imageSlug), FALSE, fault)
  IN  IF hit = "throw" THEN [out |-> "throw", prompt |-> <<>>]
      ELSE IF hit = "true" /\ promptData.out = "value"
              /\ promptData.val.ready /\ promptData.val.prompt # <<>>
        THEN [out |-> "ready", prompt |-> promptData.val.prompt]
      ELSE [out |-> "null", prompt |-> <<>>]

\* getImagePrompt: out is "ready" (with the prompt), "generating", "null",
\* or "throw" when isCached throws.
getImagePrompt(imageSlug, fault) ==
  LET hit == isCached(promptKey(imageSlug), PromptMaxAgeHours, FALSE, fault, FALSE)
      promptData == getCache(promptKey(imageSlug), FALSE, fault)
  IN  IF hit = "throw" THEN [out |-> "throw", prompt |-> <<>>]
      ELSE IF hit = "true" /\ promptData.out = "value"
              /\ promptData.val.ready /\ promptData.val.prompt # <<>>
        THEN [out |-> "ready", prompt |-> promptData.val.prompt]
      ELSE IF hit = "true" /\ promptData.out = "value" /\ ~promptData.val.ready
        THEN [out |-> "generating", prompt |-> <<>>]
      ELSE [out |-> "null", prompt |-> <<>>]

\* line.replace(/^\d+\.\s*/, "").trim(); a line is a sequence of words
stripNumber(line) ==
  IF line # <<>> /\ Head(line) = "1." THEN trim(Tail(line)) ELSE trim(line)

\* split, strip, filter non-empty, slice(0, imageReferences.length)
parsePrompts(lines, n) ==
  LET stripped == [i \in 1..Len(lines) |-> stripNumber(lines[i])]
      kept == SelectSeq(stripped, LAMBDA l : Len(l) > 0)
  IN  SubSeq(kept, 1, IF Len(kept) < n THEN Len(kept) ELSE n)

\* imageReferences.forEach((img, index) => if (prompts[index]) store)
RECURSIVE storePrompts(_, _, _, _, _, _)
storePrompts(d, imageReferences, prompts, index, articleTitle, fault) ==
  IF index > Len(imageReferences) THEN d
  ELSE storePrompts(
         IF index <= Len(prompts)
         THEN storeImagePrompt(d, imageReferences[index], prompts[index],
                               articleTitle, fault)
         ELSE d,
         imageReferences, prompts, index + 1, articleTitle, fault)

\* `Educational photo of ${caption}, documentary style`
fallbackPrompt(img) == <<"Educational photo of">> \o img

\* The catch block: a fallback prompt for every reference.
RECURSIVE storeFallbacks(_, _, _, _)
storeFallbacks(d, imageReferences, articleTitle, fault) ==
  IF imageReferences = <<>> THEN d
  ELSE storeFallbacks(
         storeImagePrompt(d, Head(imageReferences),
                          fallbackPrompt(Head(imageReferences)),
                          articleTitle, fault),
         Tail(imageReferences), articleTitle, fault)

\* Answers of the model to a batch: lines, numbered or not, some blank.
BatchResponses ==
  { << <<"1.", " ", "p1">>, <<"p2">> >>,
    << <<"p1">> >>,
    << <<" ">>, <<"p1">>, <<"p2">>, <<"p1">> >>,
    << <<" ">> >> }

\* response.trim() is empty: every line is blank.
blankResponse(lines) == \A i \in 1..Len(lines) : trim(lines[i]) = <<>>

\* generateBatchImagePrompts after its await: the files, the value returned
\* and whether the promise resolves.  ok: the model call answered.
generateBatchImagePrompts(d, imageReferences, articleTitle, ok, lines, fault) ==
  LET prompts == parsePrompts(lines, Len(imageReferences))
      parsed == ok /\ ~blankResponse(lines)
      \* storeImagePrompt throws in the try block only if it is called
      tryThrows == ~parsed \/ (ensureCacheDirThrows(fault) /\ prompts # <<>>)
  IN  IF ~tryThrows
      THEN [out |-> "returned", prompts |-> prompts,
            disk |-> storePrompts(d, imageReferences, prompts, 1,
                                  articleTitle, fault)]
      ELSE IF ensureCacheDirThrows(fault)
      THEN [out |-> "rejected", prompts |-> <<>>, disk |-> d]
      ELSE [out |-> "returned",
            prompts |-> [i \in 1..Len(imageReferences) |->
                           fallbackPrompt(imageReferences[i])],
            disk |-> storeFallbacks(d, imageReferences, articleTitle, fault)]

\* ------------------------------------------- GET /images/:filename.:ext

allowedExtensions ==
  {"png", "jpg", "jpeg", "webp", "svg", "gif", "bmp", "tiff", "ico"}
\* Extensions that clients ask for, and ext.toLowerCase()
Extensions == {"webp", "WEBP", "exe"}
extToLowerCase(ext) == IF ext = "WEBP" THEN "webp" ELSE ext
\* req.query.aspect: absent, or a ratio
Aspects == {"", "16:9"}

\* req.query.aspect || "4:3", with another default.
requestedAspect_square(aspect) == IF aspect = "" THEN "1:1" ELSE aspect

\* req.query.aspect || "4:3"
requestedAspect(aspect) == IF aspect = "" THEN "4:3" ELSE aspect

\* The catch block of the image route answering 404, as its comment says.
imageCatch_notFound(q) == send(q, 404, Frag("imageError", NoPage))

\* The catch block of the image route.
imageCatch(q) == send(q, 500, Frag("imageError", NoPage))

\* { originalFilename, title, format, generatedAt }
imageMetadata(filename, ext) == Metadata(ext)

\* The route up to its await.
imageRouteEntry(filename, ext, aspect, fault) ==
  LET q0 == [Idle EXCEPT !.kind = "image", !.slug = filename,
                         !.img.ext = ext, !.img.aspect = aspect]
      cacheKey == Key("image", filename)
      hit == isCached(cacheKey, ImageMaxAgeHours, TRUE, fault, FALSE)
      cached == getCache(cacheKey, TRUE, fault)
      promptData == getImagePrompt(filename, fault)
  IN  IF extToLowerCase(ext) \notin allowedExtensions
        THEN send(q0, 404, Frag("unsupported", NoPage))
      ELSE IF hit = "throw" THEN imageCatch(q0)
      ELSE IF hit = "true" /\ cached.out = "value"
        THEN send([q0 EXCEPT !.hit = TRUE, !.img.buffer = cached.val], 200,
                  Frag("image", NoPage))
      ELSE IF promptData.out = "throw" THEN imageCatch(q0)
      ELSE IF promptData.out = "null"
        THEN send(q0, 404, Frag("noPromptData", NoPage))
      ELSE IF promptData.out = "generating"
        THEN send(q0, 202, Frag("generating", NoPage))
      ELSE [q0 EXCEPT !.pc = "image", !.calls.image = @ + 1,
                      !.img.subject = wikipediaSlugToTitle(filename),
                      !.img.prompt = promptData.prompt,
                      !.img.aspectRatio = requestedAspect(aspect)]

ImageRequest(r, filename, ext, aspect, fault) ==
  /\ Free(req[r])
  /\ req' = [req EXCEPT ![r] = imageRouteEntry(filename, ext, aspect, fault)]
  /\ dirExists' = IF extToLowerCase(ext) \notin allowedExtensions THEN dirExists
                  ELSE ensureCacheDir(fault)
  /\ regLog' = NoLog
  /\ ret' = NoRet
  /\ UNCHANGED <<now, disk, validPagesFile, validPages, variant>>

\* generateWikiImage settles: the buffer, or a throw (the Replicate call
\* or the download failed).  Then setCache, headers, res.send.
imageReturn(q, ok, imageBuffer, fault) ==
  IF ~ok THEN imageCatch([q EXCEPT !.failedCalls = @ + 1])
  ELSE IF ensureCacheDirThrows(fault) THEN imageCatch(q)
  ELSE send([q EXCEPT !.img.buffer = imageBuffer], 200, Frag("image", NoPage))

ImageReturn(r, ok, imageBuffer, fault, sidecarFault) ==
  /\ req[r].pc = "image"
  /\ req' = [req EXCEPT ![r] = imageReturn(req[r], ok, imageBuffer, fault)]
  /\ dirExists' = IF ok THEN ensureCacheDir(fault) ELSE dirExists
  /\ disk' = IF ok /\ ~ensureCacheDirThrows(fault)
             THEN setCacheOn(disk, Key("image", req[r].slug), imageBuffer,
                             imageMetadata(req[r].slug, req[r].img.ext),
                             TRUE, fault, sidecarFault)
             ELSE disk
  /\ regLog' = NoLog
  /\ ret' = NoRet
  /\ UNCHANGED <<now, validPagesFile, validPages, variant>>

\* A page pipeline calls markPromptsGenerating(imageReferences, articleTitle).
CallMarkPromptsGenerating(imageReferences, fault) ==
  /\ \A r \in Reqs : Free(req[r])
  /\ ret' = [NoRet EXCEPT !.op = "markPromptsGenerating",
                          !.out = IF ensureCacheDirThrows(fault) THEN "throw"
                                  ELSE "void",
                          !.logged = ~ensureCacheDirThrows(fault) /\ fault]
  /\ dirExists' = ensureCacheDir(fault)
  /\ disk' = IF ensureCacheDirThrows(fault) THEN disk
             ELSE markPromptsGenerating(disk, imageReferences, ArticleTitle, fault)
  /\ regLog' = NoLog
  /\ UNCHANGED <<now, validPagesFile, validPages, variant, req>>

\* generateBatchImagePrompts up to its await; an empty list returns [].
batchEntry(imageReferences) ==
  IF imageReferences = <<>>
  THEN [Idle EXCEPT !.kind = "batch", !.pc = "done", !.ended = TRUE]
  ELSE [Idle EXCEPT !.kind = "batch", !.pc = "prompts",
                    !.img.refs = imageReferences, !.calls.prompts = 1]

BatchRequest(r, imageReferences) ==
  /\ Free(req[r])
  /\ req' = [req EXCEPT ![r] = batchEntry(imageReferences)]
  /\ regLog' = NoLog
  /\ ret' = NoRet
  /\ UNCHANGED <<now, dirExists, disk, validPagesFile, validPages, variant>>

BatchReturn(r, ok, lines, fault) ==
  LET b == generateBatchImagePrompts(disk, req[r].img.refs, ArticleTitle,
                                     ok, lines, fault)
  IN  /\ req[r].pc = "prompts"
      /\ req' = [req EXCEPT ![r] =
                   [failed(req[r], ok) EXCEPT
                      !.pc = "done", !.ended = TRUE, !.json = b.prompts,
                      !.status = IF b.out = "returned" THEN 200 ELSE 500]]
      /\ disk' = b.disk
      /\ dirExists' = IF b.prompts # <<>> \/ b.out = "rejected"
                      THEN ensureCacheDir(fault) ELSE dirExists
      /\ regLog' = NoLog
      /\ ret' = NoRet
      /\ UNCHANGED <<now, validPagesFile, validPages, variant>>

ImageTick ==
  /\ now + ImageTickHours <= ImageMaxNow
  /\ now' = now + ImageTickHours
  /\ ret' = NoRet
  /\ regLog' = NoLog
  /\ UNCHANGED <<dirExists, disk, validPagesFile, validPages, variant, req>>

\* Prompt records an earlier run left: ready or still generating.
LeftPromptFiles ==
  LET file == getCacheFilePath(promptKey(<<"A">>), FALSE)
  IN  { [NoFiles EXCEPT ![file] =
           Stored([prompt |-> <<"p0">>, ready |-> TRUE,
                   articleTitle |-> ArticleTitle], 0 - 1)],
        [NoFiles EXCEPT ![file] =
           Stored([prompt |-> <<>>, ready |-> FALSE,
                   articleTitle |-> ArticleTitle], 0 - 1)] }

ImageInit ==
  /\ now = 0
  /\ variant = "preserve"
  /\ dirExists \in BOOLEAN
  /\ disk \in (IF dirExists
               THEN {NoFiles} \cup LeftImageFiles \cup LeftPromptFiles
               ELSE {NoFiles})
  /\ validPagesFile = NoRegFile
  /\ validPages = loadValidPages(validPagesFile)
  /\ req = [r \in Reqs |-> Idle]
  /\ ret = NoRet
  /\ regLog = NoLog

ImageNext ==
  \/ \E r \in Reqs, ext \in Extensions, aspect \in Aspects, fault \in BOOLEAN :
        ImageRequest(r, <<"A">>, ext, aspect, fault)
  \/ \E r \in Reqs, ok \in BOOLEAN, imageBuffer \in Buffers, fault \in BOOLEAN,
        sidecarFault \in BOOLEAN :
        ImageReturn(r, ok, imageBuffer, fault, sidecarFault)
  \/ \E imageReferences \in RefLists, fault \in BOOLEAN :
        CallMarkPromptsGenerating(imageReferences, fault)
  \/ \E r \in Reqs, imageReferences \in RefLists \cup {<<>>} :
        BatchRequest(r, imageReferences)
  \/ \E r \in Reqs, ok \in BOOLEAN, lines \in BatchResponses, fault \in BOOLEAN :
        BatchReturn(r, ok, lines, fault)
  \/ ImageTick

ImageSpec == ImageInit /\ [][ImageNext]_vars

\* ------------------------------------------- functions of the page pipeline

\* Longest content (in image elements) handed to extractImageReferences.
MaxImages == 3

\* An image element of the rendered page: a <figure> holding an <img> and a
\* <figcaption>, or an <img> on its own.  A file name is its base name and
\* its extension; texts are tagged with the position of their element.
ImageNames == {"s1", "s2"}
NoText == <<>>
imageElement(i, type, name, hasAlt) ==
  << type,
     <<name, IF i % 2 = 1 THEN "webp" ELSE "png">>,
     IF hasAlt THEN <<"alt", i>> ELSE NoText,
     IF type = "figure" THEN <<"caption", i>> ELSE NoText >>
\* The parts of an element that the regular expressions capture.
tagOf(e) == e[1]
filenameOf(e) == e[2]
altOf(e) == e[3]
figcaptionOf(e) == e[4]
ImageContents ==
  UNION { { [i \in 1..n |-> imageElement(i, ty[i], nm[i], ha[i])] :
              ty \in [1..n -> {"figure", "standalone"}],
              nm \in [1..n -> ImageNames],
              ha \in [1..n -> BOOLEAN] } : n \in 0..MaxImages }

\* filename.replace(/\.[^/.]+$/, "")
removeExtension(filename) == filename[1]

\* The first loop of extractImageReferences: one entry per <figure>.
figureEntry(e) ==
  [filename |-> filenameOf(e), slug |-> removeExtension(filenameOf(e)),
   alt |-> IF altOf(e) # NoText THEN altOf(e) ELSE figcaptionOf(e),
   caption |-> figcaptionOf(e), type |-> "figure"]
figurePass(htmlContent) ==
  LET figs == SelectSeq(htmlContent, LAMBDA e : tagOf(e) = "figure")
  IN  [i \in 1..Len(figs) |-> figureEntry(figs[i])]

\* images.some((img) => img.slug === slug)
someSlug(images, slug) == \E i \in 1..Len(images) : images[i].slug = slug

\* The second loop: every <img>, those inside figures included, is pushed
\* unless an entry with its slug is already in the list.
RECURSIVE imgPass(_, _)
imgPass(images, htmlContent) ==
  IF htmlContent = <<>> THEN images
  ELSE LET e == Head(htmlContent)
           slug == removeExtension(filenameOf(e))
       IN  IF someSlug(images, slug)
           THEN imgPass(images, Tail(htmlContent))
           ELSE imgPass(Append(images,
                          [filename |-> filenameOf(e), slug |-> slug,
                           alt |-> altOf(e), caption |-> altOf(e),
                           type |-> "standalone"]),
                        Tail(htmlContent))

extractImageReferences(htmlContent) ==
  imgPass(figurePass(htmlContent), htmlContent)

\* The infobox answers: none, or one naming an image.
NoInfobox == << <<>>, NoText >>
InfoboxDatas == {NoInfobox, << <<"s1", "jpg">>, <<"name", 0>> >>}
infoboxImage(infoboxData) == infoboxData[1]
infoboxName(infoboxData) == infoboxData[2]

\* images.filter with the Set of slugs seen so far.
RECURSIVE dedupe(_, _)
dedupe(images, seen) ==
  IF images = <<>> THEN <<>>
  ELSE IF Head(images).slug \in seen THEN dedupe(Tail(images), seen)
  ELSE <<Head(images)>> \o dedupe(Tail(images), seen \cup {Head(images).slug})

mergeInfoboxImageReferences(htmlContent, infoboxData) ==
  LET images == extractImageReferences(htmlContent)
      slug == removeExtension(infoboxImage(infoboxData))
      merged == IF infoboxImage(infoboxData) # <<>> /\ ~someSlug(images, slug)
                THEN <<[filename |-> infoboxImage(infoboxData), slug |-> slug,
                        alt |-> infoboxName(infoboxData),
                        caption |-> infoboxName(infoboxData),
                        type |-> "infobox"]>> \o images
                ELSE images
  IN  dedupe(merged, {})

\* A call of a function of the pipeline from outside, one per behaviour:
\* ret holds the function, its argument and its result.
Applied(op, arg, out) == [op |-> op, arg |-> arg, out |-> out]
NotApplied == Applied("none", <<>>, <<>>)

CallExtractImageReferences(htmlContent) ==
  /\ ret = NotApplied
  /\ ret' = Applied("extractImageReferences", htmlContent,
                    extractImageReferences(htmlContent))
  /\ UNCHANGED <<now, dirExists, disk, validPagesFile, validPages, variant,
                 req, regLog>>

CallMergeInfoboxImageReferences(htmlContent, infoboxData) ==
  /\ ret = NotApplied
  /\ ret' = Applied("mergeInfoboxImageReferences",
                    <<htmlContent, infoboxData>>,
                    mergeInfoboxImageReferences(htmlContent, infoboxData))
  /\ UNCHANGED <<now, dirExists, disk, validPagesFile, validPages, variant,
                 req, regLog>>

\* Longest markup (in heading lines) handed to generateTableOfContents.
MaxHeadings == 4

\* The heading lines of the assembled markdown, in document order.
HeadingLines ==
  UNION { [1..n -> {"##", "###"}] : n \in 0..MaxHeadings }

\* generateTableOfContents up to the HTML: the items after the first i
\* lines.  One counter numbers the ids of both levels in document order; a
\* "###" line before any "##" line takes an id and is dropped.
RECURSIVE tocItems(_, _)
tocItems(lines, i) ==
  IF i = 0 THEN <<>>
  ELSE LET items == tocItems(lines, i - 1)
           entry == [pos |-> i, id |-> i, children |-> <<>>]
       IN  IF lines[i] = "##" THEN Append(items, entry)
           ELSE IF items = <<>> THEN items
           ELSE [items EXCEPT ![Len(items)].children =
                   Append(@, [pos |-> i, id |-> i])]

\* The links of the table: <a href="#toc-{id}">{number} {title}</a>, the
\* title standing for the position of its line.
tocLinks(items) ==
  UNION { { [number |-> <<n>>, id |-> items[n].id, pos |-> items[n].pos] }
          \cup { [number |-> <<n, c>>, id |-> items[n].children[c].id,
                  pos |-> items[n].children[c].pos] :
                 c \in 1..Len(items[n].children) } : n \in 1..Len(items) }

generateTableOfContents(markdownContent) ==
  tocLinks(tocItems(markdownContent, Len(markdownContent)))

\* marked.parse on heading lines: "## t" is <h2>t</h2>, "### t" <h3>t</h3>.
markedParse(markdownContent) ==
  [i \in 1..Len(markdownContent) |->
     IF markdownContent[i] = "##" THEN "h2" ELSE "h3"]

\* addHeaderIds: the id of each heading.  The first replace numbers every
\* <h2> from 1, the second goes on with every <h3>.
addHeaderIds(htmlContent) ==
  LET tags(t, i) == Cardinality({j \in 1..i : htmlContent[j] = t})
  IN  [i \in 1..Len(htmlContent) |->
         IF htmlContent[i] = "h2" THEN tags("h2", i)
         ELSE tags("h2", Len(htmlContent)) + tags("h3", i)]

\* Lines 1189-1202 of generatePageContent, for the headings of the markup.
CallGenerateTableOfContents(markdownContent) ==
  /\ ret = NotApplied
  /\ ret' = Applied("generateTableOfContents", markdownContent,
                    [toc |-> generateTableOfContents(markdownContent),
                     ids |-> addHeaderIds(markedParse(markdownContent))])
  /\ UNCHANGED <<now, dirExists, disk, validPagesFile, validPages, variant,
                 req, regLog>>

\* Longest title and longest slug handed to the slug codec.
MaxTitleLen == 4
MaxSlugLen == 5

\* Titles made of letters (ASCII and not) and spaces; slugs as a URL can
\* carry them, punctuation included.
TitleChars == {"a", "A", "é", " "}
CodecTitles == UNION { [1..n -> TitleChars] : n \in 0..MaxTitleLen }
SlugChars == {"a", "_", "-", " "}
CodecSlugs == UNION { [1..n -> SlugChars] : n \in 0..MaxSlugLen }

\* wikipediaSlugToTitle(titleToWikipediaSlug(title))
CallSlugRoundTrip(title) ==
  /\ ret = NotApplied
  /\ ret' = Applied("slugRoundTrip", title,
                    wikipediaSlugToTitle(titleToWikipediaSlug(title)))
  /\ UNCHANGED <<now, dirExists, disk, validPagesFile, validPages, variant,
                 req, regLog>>

\* titleToWikipediaSlug(wikipediaSlugToTitle(slug)), and the title of it
normalizeSlug(slug) == titleToWikipediaSlug(wikipediaSlugToTitle(slug))
normalizeToTitle(slug) == wikipediaSlugToTitle(normalizeSlug(slug))

CallNormalizeSlug(slug) ==
  /\ ret = NotApplied
  /\ ret' = Applied("normalizeSlug", slug,
                    [slug |-> normalizeSlug(slug),
                     title |-> normalizeToTitle(slug)])
  /\ UNCHANGED <<now, dirExists, disk, validPagesFile, validPages, variant,
                 req, regLog>>

\* A value of the infobox, as the parts that its commas separate; a value
\* without a comma is one part.  Parts are short strings of letters, spaces
\* and hyphens.
MaxItemLen == 2
ItemChars == {"A", "a", " ", "-"}
InfoboxItems == UNION { [1..n -> ItemChars] : n \in 0..MaxItemLen }
InfoboxValues == { <<i>> : i \in InfoboxItems } \cup (InfoboxItems \X InfoboxItems)

\* value.split(",").map(trim).filter(nonempty)
listItems(value) ==
  SelectSeq([i \in 1..Len(value) |-> trim(value[i])], LAMBDA item : item # <<>>)

\* /^[A-Z][a-z\s-]+$/ on a value without a comma (the model's values hold
\* none of the words of the second pattern).
looksLinkable(value) ==
  /\ Len(value) = 1 /\ Len(value[1]) >= 2
  /\ value[1][1] = "A"
  /\ \A i \in 2..Len(value[1]) : value[1][i] \in {"a", " ", "-"}

\* extractInfoboxLinkedPages for one value: the titles the route registers.
extractInfoboxLinkedPages(value) ==
  IF Len(value) > 1 /\ Len(listItems(value)) > 1 THEN listItems(value)
  ELSE IF looksLinkable(value) THEN <<value[1]>>
  ELSE <<>>

\* formatInfoboxValue for one value: the slugs of the links it renders,
\* item.replace(/\s+/g, "_") each.
formatInfoboxValue(value) ==
  IF Len(value) > 1 /\ Len(listItems(value)) > 1
  THEN [i \in 1..Len(listItems(value)) |-> replaceWsRuns(listItems(value)[i])]
  ELSE IF looksLinkable(value) THEN <<replaceWsRuns(value[1])>>
  ELSE <<>>

\* The route on one infobox value: addValidPage for each linked page, then
\* renderInfobox.
CallRenderInfoboxValue(value) ==
  /\ ret = NotApplied
  /\ ret' = Applied("renderInfoboxValue", value,
                    [links |-> formatInfoboxValue(value),
                     registered |->
                       { titleToWikipediaSlug(extractInfoboxLinkedPages(value)[i]) :
                           i \in 1..Len(extractInfoboxLinkedPages(value)) }])
  /\ UNCHANGED <<now, dirExists, disk, validPagesFile, validPages, variant,
                 req, regLog>>

PureInit ==
  /\ now = 0
  /\ variant \in SlugVariants
  /\ dirExists = TRUE
  /\ disk = NoFiles
  /\ validPagesFile = NoRegFile
  /\ validPages = {}
  /\ req = [r \in Reqs |-> Idle]
  /\ ret = NotApplied
  /\ regLog = NoLog

PureNext ==
  \/ \E c \in ImageContents : CallExtractImageReferences(c)
  \/ \E c \in ImageContents, d \in InfoboxDatas :
       CallMergeInfoboxImageReferences(c, d)
  \/ \E lines \in HeadingLines : CallGenerateTableOfContents(lines)
  \/ \E title \in CodecTitles : CallSlugRoundTrip(title)
  \/ \E slug \in CodecSlugs : CallNormalizeSlug(slug)
  \/ \E value \in InfoboxValues : CallRenderInfoboxValue(value)

PureSpec == PureInit /\ [][PureNext]_vars

\* ---------------------------------- two requests for one slug, in flight

\* Two connections, each carrying one request for the same slug, the second
\* arriving before the first has been answered; every collaborator call
\* answers, the file system accepts every write.
Conns == {1, 2}
SharedSlug == <<"A">>

ConcurrentPageRequest(r) ==
  /\ req[r].pc = "idle"
  /\ \A o \in Conns \ {r} : req[o].pc # "done"
  /\ PageRequest(r, SharedSlug, FALSE, FALSE)

PairInit ==
  /\ now = 0
  /\ variant = "preserve"
  /\ dirExists = TRUE
  /\ disk = NoFiles
  /\ validPagesFile = NoRegFile
  /\ validPages = loadValidPages(validPagesFile)
  /\ req = [r \in Conns |-> Idle]
  /\ ret = NoRet
  /\ regLog = NoLog

PairNext ==
  \/ \E r \in Conns : ConcurrentPageRequest(r)
  \/ \E r \in Conns : ValidateReturn(r, "valid")
  \/ \E r \in Conns : RewriteReturn(r, SharedSlug, FALSE)
  \/ \E r \in Conns : InfoboxReturn(r, TRUE)
  \/ \E r \in Conns, sections \in Outlines : OutlineReturn(r, TRUE, sections)
  \/ \E r \in Conns : InnerInfoboxReturn(r, TRUE)
  \/ \E r \in Conns : OpeningReturn(r, TRUE)
  \/ \E r \in Conns, i \in 1..MaxSections : SectionReturn(r, i, TRUE)

PairSpec == PairInit /\ [][PairNext]_vars

\* -------------------------------------------- the lazy image loader (client)

\* Most probes the model lets one element send.
MaxProbes == 3

\* setTimeout(() => this.checkImageStatus(img, src), 1000)
PollMillis == 1000

\* The lazy images of a page; req holds, for each, the element and the
\* state of its loader.  dataSrc stands for img.dataset.src.
Elements == {1, 2}
dataSrc(e) == <<"/images/", e>>
NoSrc == <<>>
LazyImage ==
  [kind |-> "lazyImage", phase |-> "observed",
   probes |-> 0,              \* fetch(src, {method: "HEAD"}) calls issued
   status |-> 0,              \* response.status of the last probe, 0 if none
   timer |-> 0,               \* delay of the pending timeout, 0 if none
   loads |-> 0,               \* Image() preloads started
   src |-> NoSrc, display |-> "", classList |-> {"lazy-load"}]

\* Statuses the image route and its host answer with.
ProbeStatuses == {200, 202, 204, 404, 500}
\* Response.ok
responseOk(status) == status >= 200 /\ status <= 299

\* loadImage -> checkImageStatus up to its await: the probe is sent.
checkImageStatus(el) == [el EXCEPT !.phase = "probing", !.probes = @ + 1]

loadImageNormally(el) == [el EXCEPT !.phase = "loading", !.loads = @ + 1]

handleImageError(el) ==
  [el EXCEPT !.phase = "error", !.display = "none",
             !.classList = (@ \ {"lazy-load"}) \cup {"error"}]

\* imageLoader.onload
onload(el, src) ==
  [el EXCEPT !.phase = "loaded", !.src = src,
             !.classList = (@ \ {"lazy-load"}) \cup {"loaded"}]

\* checkImageStatus testing response.ok before the 202.
probeAnswered_okFirst(el, status) ==
  IF responseOk(status) THEN loadImageNormally(el)
  ELSE IF status = 202 THEN [el EXCEPT !.phase = "waiting", !.timer = PollMillis]
  ELSE handleImageError(el)

\* checkImageStatus after its await, for the status of the response.
probeAnswered(el, status) ==
  IF status = 202 THEN [el EXCEPT !.phase = "waiting", !.timer = PollMillis]
  ELSE IF responseOk(status) THEN loadImageNormally(el)
  ELSE handleImageError(el)

ClientStep(e, el) ==
  /\ req' = [req EXCEPT ![e] = el]
  /\ UNCHANGED <<now, dirExists, disk, validPagesFile, validPages, variant,
                 ret, regLog>>

\* The observer reports the element in view: loadImage(img).
Intersects(e) ==
  /\ req[e].phase = "observed"
  /\ ClientStep(e, checkImageStatus(req[e]))

ProbeAnswered(e, status) ==
  /\ req[e].phase = "probing"
  /\ ClientStep(e, probeAnswered([req[e] EXCEPT !.status = status], status))

\* fetch rejects (network error): the catch block loads the image normally.
ProbeRejected(e) ==
  /\ req[e].phase = "probing"
  /\ ClientStep(e, loadImageNormally([req[e] EXCEPT !.status = 0]))

\* The timeout fires: checkImageStatus again.
TimerFires(e) ==
  /\ req[e].phase = "waiting"
  /\ req[e].probes < MaxProbes
  /\ ClientStep(e, checkImageStatus([req[e] EXCEPT !.timer = 0]))

\* The preload finishes: onload, or onerror.
ImageLoaded(e, ok) ==
  /\ req[e].phase = "loading"
  /\ ClientStep(e, IF ok THEN onload(req[e], dataSrc(e))
                   ELSE handleImageError(req[e]))

ClientInit ==
  /\ now = 0
  /\ variant = "preserve"
  /\ dirExists = TRUE
  /\ disk = NoFiles
  /\ validPagesFile = NoRegFile
  /\ validPages = {}
  /\ req = [e \in Elements |-> LazyImage]
  /\ ret = NoRet
  /\ regLog = NoLog

ClientNext ==
  \/ \E e \in Elements : Intersects(e)
  \/ \E e \in Elements, status \in ProbeStatuses : ProbeAnswered(e, status)
  \/ \E e \in Elements : ProbeRejected(e)
  \/ \E e \in Elements : TimerFires(e)
  \/ \E e \in Elements, ok \in BOOLEAN : ImageLoaded(e, ok)

ClientSpec == ClientInit /\ [][ClientNext]_vars

\* ------------------------------------------- a client following redirects

\* Most redirects the model lets a client follow in a row.
MaxHops == 2

\* Titles the canonicalization answers with here: a plain one, one that
\* holds a percent escape, one that ends in a percent sign.
RedirectTitles == { <<"A">>, <<"%", "4", "1">>, <<"a", "%">> }

\* encodeURIComponent on the characters of the model's slugs: letters,
\* digits, "_" and "-" stay, "%" and " " are escaped.
RECURSIVE encodeURIComponent(_)
encodeURIComponent(s) ==
  IF s = <<>> THEN <<>>
  ELSE (IF Head(s) = "%" THEN <<"%", "2", "5">>
        ELSE IF Head(s) = " " THEN <<"%", "2", "0">>
        ELSE <<Head(s)>>) \o encodeURIComponent(Tail(s))

\* The escapes that occur in the model's strings, and what they stand for.
PercentEscapes == { <<"2", "5">>, <<"2", "0">>, <<"4", "1">> }
unescaped(pair) ==
  IF pair = <<"2", "5">> THEN "%" ELSE IF pair = <<"2", "0">> THEN " " ELSE "A"

\* decodeURIComponent does not throw URIError on s.
RECURSIVE wellFormedURI(_)
wellFormedURI(s) ==
  IF s = <<>> THEN TRUE
  ELSE IF Head(s) # "%" THEN wellFormedURI(Tail(s))
  ELSE /\ Len(s) >= 3
       /\ <<s[2], s[3]>> \in PercentEscapes
       /\ wellFormedURI(SubSeq(s, 4, Len(s)))

\* decodeURIComponent on a string it does not throw on.
RECURSIVE decodeURIComponent(_)
decodeURIComponent(s) ==
  IF s = <<>> THEN <<>>
  ELSE IF Head(s) # "%" THEN <<Head(s)>> \o decodeURIComponent(Tail(s))
  ELSE <<unescaped(<<s[2], s[3]>>)>> \o decodeURIComponent(SubSeq(s, 4, Len(s)))

\* req.params.page for the path /wiki/{segment}: the router decodes the
\* segment before the handler runs.
paramsPage(segment) == decodeURIComponent(segment)

\* The client requests the Location of the 301 it received:
\* `/wiki/${encodeURIComponent(properSlug)}`.  The handler decodes
\* req.params.page once more (decodeURIComponent(page)).
FollowRedirect(r, fault) ==
  LET page == paramsPage(encodeURIComponent(req[r].location))
      malformed == ~wellFormedURI(page)
      decodedPage == IF malformed THEN <<>> ELSE decodeURIComponent(page)
  IN  /\ req[r].pc = "done" /\ req[r].status = 301
      /\ req[r].location # <<>>
      /\ req[r].hops < MaxHops
      /\ req' = [req EXCEPT ![r] =
            [pageRouteEntry(decodedPage, malformed, fault) EXCEPT
               !.hops = req[r].hops + 1]]
      /\ dirExists' = IF malformed THEN dirExists ELSE ensureCacheDir(fault)
      /\ regLog' = NoLog
      /\ UNCHANGED <<now, disk, validPagesFile, validPages, variant, ret>>

RedirectInit ==
  /\ now = 0
  /\ variant \in SlugVariants
  /\ dirExists = TRUE
  /\ disk \in LeftPageFiles
  /\ validPagesFile \in LeftRegFiles
  /\ validPages = loadValidPages(validPagesFile)
  /\ req = [r \in Reqs |-> Idle]
  /\ ret = NoRet
  /\ regLog = NoLog

RedirectNext ==
  \/ \E r \in Reqs, slug \in ReqSlugs : PageRequest(r, slug, FALSE, FALSE)
  \/ \E r \in Reqs, fault \in BOOLEAN : FollowRedirect(r, fault)
  \/ \E r \in Reqs, answer \in {"valid", "invalid", "fail"} : ValidateReturn(r, answer)
  \/ \E r \in Reqs, response \in RedirectTitles, fault \in BOOLEAN :
        RewriteReturn(r, response, fault)
  \/ \E r \in Reqs : RewriteFails(r)
  \/ \E r \in Reqs, ok \in BOOLEAN : InfoboxReturn(r, ok)
  \/ \E r \in Reqs, ok \in BOOLEAN, sections \in Outlines :
        OutlineReturn(r, ok, sections)
  \/ \E r \in Reqs, ok \in BOOLEAN : InnerInfoboxReturn(r, ok)
  \/ \E r \in Reqs, ok \in BOOLEAN : OpeningReturn(r, ok)
  \/ \E r \in Reqs, i \in 1..MaxSections, ok \in BOOLEAN : SectionReturn(r, i, ok)

RedirectSpec == RedirectInit /\ [][RedirectNext]_vars

\* ------------------------------------- page requests whose calls all answer

\* The client closes the connection while its page request is being served.
\* The route registers no listener for it (no req.on("close"), no abort
\* signal handed to a call): the handler goes on as it was.
ClientDisconnects(r) ==
  /\ req[r].kind = "page" /\ ~req[r].ended /\ req[r].connected
  /\ req' = [req EXCEPT ![r].connected = FALSE]
  /\ regLog' = NoLog
  /\ UNCHANGED <<now, dirExists, disk, validPagesFile, validPages, variant, ret>>

LiveInit ==
  /\ now = 0
  /\ variant \in SlugVariants
  /\ dirExists = TRUE
  /\ disk \in LeftPageFiles
  /\ validPagesFile \in {NoRegFile, RegFile({<<"A">>}, 0 - 1)}
  /\ validPages = loadValidPages(validPagesFile)
  /\ req = [r \in Reqs |-> Idle]
  /\ ret = NoRet
  /\ regLog = NoLog

ValidateAnswers == \E r \in Reqs, answer \in {"valid", "invalid", "fail"} : ValidateReturn(r, answer)
RewriteAnswers ==
  \/ \E r \in Reqs, response \in LlmTitles, fault \in BOOLEAN :
        RewriteReturn(r, response, fault)
  \/ \E r \in Reqs : RewriteFails(r)
InfoboxAnswers == \E r \in Reqs, ok \in BOOLEAN : InfoboxReturn(r, ok)
OutlineAnswers ==
  \E r \in Reqs, ok \in BOOLEAN, sections \in Outlines : OutlineReturn(r, ok, sections)
InnerInfoboxAnswers == \E r \in Reqs, ok \in BOOLEAN : InnerInfoboxReturn(r, ok)
OpeningAnswers == \E r \in Reqs, ok \in BOOLEAN : OpeningReturn(r, ok)
SectionAnswers ==
  \E r \in Reqs, i \in 1..MaxSections, ok \in BOOLEAN : SectionReturn(r, i, ok)

LiveNext ==
  \/ \E r \in Reqs, slug \in ReqSlugs, malformed \in BOOLEAN, fault \in BOOLEAN :
        PageRequest(r, slug, malformed, fault)
  \/ \E r \in Reqs : ClientDisconnects(r)
  \/ ValidateAnswers
  \/ RewriteAnswers
  \/ InfoboxAnswers
  \/ OutlineAnswers
  \/ InnerInfoboxAnswers
  \/ OpeningAnswers
  \/ SectionAnswers

\* Every collaborator call that was issued answers or fails in the end.
LiveSpec ==
  /\ LiveInit /\ [][LiveNext]_vars
  /\ WF_vars(ValidateAnswers) /\ WF_vars(RewriteAnswers)
  /\ WF_vars(InfoboxAnswers) /\ WF_vars(OutlineAnswers)
  /\ WF_vars(InnerInfoboxAnswers) /\ WF_vars(OpeningAnswers)
  /\ WF_vars(SectionAnswers)

\* ------------------------------- the cache sweep and the registry's file

\* A route registers a title: addValidPage called on its own.
CallAddValidPage(title, fault) ==
  LET R == addValidPage(Registry, title, fault)
  IN  /\ ret' = [NoRet EXCEPT !.op = "addValidPage", !.out = "void"]
      /\ validPages' = R.vp
      /\ validPagesFile' = R.file
      /\ dirExists' = R.dir
      /\ regLog' = R.log
      /\ UNCHANGED <<now, disk, variant, req>>

SweepInit ==
  /\ now = 0
  /\ variant = "preserve"
  /\ dirExists = TRUE
  /\ disk \in LeftPageFiles
  /\ validPagesFile = NoRegFile
  /\ validPages = {}
  /\ req = [r \in Reqs |-> Idle]
  /\ ret = NoRet
  /\ regLog = NoLog

SweepNext ==
  \/ \E title \in LlmTitles, fault \in BOOLEAN : CallAddValidPage(title, fault)
  \/ \E key \in CachePageKeys, content \in NewPages, fault \in BOOLEAN :
        CallSetCache(key, content, EmptyMetadata, FALSE, fault, FALSE)
  \/ \E maxAgeHours \in MaxAges, fault \in BOOLEAN :
        CallClearExpiredCache(maxAgeHours, fault)
  \/ Tick

SweepSpec == SweepInit /\ [][SweepNext]_vars

\* ------------------------------------------------------------ properties

\* The step is the arrival of a page request on connection r.
PageRequestStep(r) ==
  /\ Free(req[r])
  /\ req'[r] # req[r]
  /\ req'[r].kind = "page"

\* The step leaves the cache entries and the registry as they were.
Untouched ==
  /\ disk' = disk
  /\ validPages' = validPages
  /\ validPagesFile' = validPagesFile

GenerationCalls(q) ==
  q.calls.outline + q.calls.infobox + q.calls.opening + q.calls.section

WikiFile(slug) == getCacheFilePath(Key("wiki", slug), FALSE)

\* C1 (as the specification states it): a finished page request whose slug
\* was neither cached nor registered, whose validation accepted, whose
\* canonical slug is the requested slug and all of whose generation calls
\* succeeded has issued one section call per outline section, has sent a
\* page that carries the outline's headings in order, has left the entry
\* wiki_{slug} in the cache and has the slug in the registry.
C1_GeneratedPageIsServedCachedRegistered ==
  \A r \in Reqs :
    LET q == req[r]
    IN  ( /\ q.kind = "page" /\ q.pc = "done"
          /\ ~q.hit /\ ~q.wasValid
          /\ q.isValidContent = "true" /\ q.properSlug = q.slug
          /\ q.calls.opening = 1 /\ q.gpc \in {"resolved", "rejected"}
          /\ q.infoboxS = "ok" /\ q.failedCalls = 0 )
        => /\ q.calls.section = Len(q.sections)
           /\ \E i \in 1..Len(q.body) :
                /\ q.body[i].kind = "pageWithoutDoctype"
                /\ SubSeq(q.body[i].page.heads, 1, Len(q.sections)) = q.sections
           /\ disk[WikiFile(q.slug)].exists
           /\ disk[WikiFile(q.slug)].mtime >= 0
           /\ q.slug \in validPages

\* C2: a page request enters validation without touching the cache entries
\* or the registry, and when validation rejects the title the request ends
\* with status 404 having made the validation call and no other, again with
\* the cache entries and the registry (in memory and on disk) untouched.
C2_RejectionAnswers404AndChangesNothing ==
  [][\A r \in Reqs :
       /\ (PageRequestStep(r) /\ req'[r].pc = "validate") => Untouched
       /\ (req[r].pc = "validate" /\ req'[r].isValidContent = "false")
            => /\ req'[r].status = 404
               /\ req'[r].pc = "done" /\ req'[r].ended
               /\ req'[r].body = <<Frag("notFound", NoPage)>>
               /\ req'[r].calls = [NoCalls EXCEPT !.validate = 1]
               /\ GenerationCalls(req'[r]) = 0
               /\ Untouched]_vars

\* C2 happens: a request has been answered 404.
C2_Witness ==
  \E r \in Reqs : req[r].pc = "done" /\ req[r].status = 404
                  /\ req[r].isValidContent = "false"

\* C3: a page request that arrives while the entry wiki_{slug} exists, is
\* readable and is less than 24 hours old is answered with exactly the
\* stored content, makes no collaborator call and changes neither the cache
\* entries nor the registry.
C3_CacheHitIsTerminal ==
  [][\A r \in Reqs :
       ( /\ PageRequestStep(r)
         /\ req'[r].slug \in ReqSlugs
         /\ disk[WikiFile(req'[r].slug)].exists
         /\ disk[WikiFile(req'[r].slug)].ok
         /\ now - disk[WikiFile(req'[r].slug)].mtime < DefaultMaxAgeHours )
       => /\ req'[r].pc = "done" /\ req'[r].ended
          /\ req'[r].status = 200
          /\ req'[r].body = <<Frag("cached", disk[WikiFile(req'[r].slug)].val)>>
          /\ req'[r].calls = NoCalls
          /\ Untouched]_vars

\* C3 happens: a request was served the page a previous run had stored.
C3_Witness ==
  \E r \in Reqs : /\ req[r].hit /\ req[r].pc = "done"
                  /\ req[r].body = <<Frag("cached", OldPage(req[r].slug))>>

\* C4: a page request makes the validation call only if its slug is not in
\* the registry when the route checks, the canonicalization call only after
\* a validation call, and a request that misses the cache with its slug in
\* the registry goes straight to generation.
C4_ValidationOnlyForUnregisteredSlugs ==
  [][\A r \in Reqs :
       /\ (PageRequestStep(r) /\ req'[r].slug \in ReqSlugs)
            => /\ req'[r].calls.validate > 0 => req'[r].slug \notin validPages
               /\ ( /\ req'[r].slug \in validPages
                    /\ ~req'[r].hit /\ req'[r].status # 500 )
                  => /\ req'[r].pc = "generate"
                     /\ req'[r].calls.validate = 0
                     /\ req'[r].calls.rewrite = 0
                     /\ req'[r].calls.outline = 1
       /\ req'[r].calls.rewrite > 0 => req'[r].calls.validate > 0]_vars

\* C4 happens: a request for a registered slug is generating, unvalidated.
C4_Witness ==
  \E r \in Reqs : /\ req[r].kind = "page" /\ req[r].pc = "generate"
                  /\ req[r].slug \in validPages /\ req[r].wasValid
                  /\ req[r].calls.validate = 0

\* C5: when canonicalization answers with a title whose slug differs from
\* the requested slug, the request ends with status 301 to that slug, the
\* slug is in the registry, and the request has made no generation call,
\* written no cache entry and sent nothing but the redirect.
C5_CanonicalizeRedirect ==
  [][\A r \in Reqs :
       ( /\ req[r].pc = "rewrite" /\ req'[r].pc # "rewrite"
         /\ req'[r].failedCalls = req[r].failedCalls
         /\ req'[r].properSlug # req'[r].slug )
       => /\ req'[r].status = 301
          /\ req'[r].pc = "done" /\ req'[r].ended
          /\ req'[r].location = req'[r].properSlug
          /\ req'[r].properSlug = titleToWikipediaSlug(regLog'.title)
          /\ req'[r].properSlug \in validPages'
          /\ GenerationCalls(req'[r]) = 0
          /\ req'[r].body = <<Frag("redirect", NoPage)>>
          /\ disk' = disk]_vars

\* C5 happens: a request was redirected to a slug other than its own.
C5_Witness ==
  \E r \in Reqs : /\ req[r].status = 301 /\ req[r].pc = "done"
                  /\ req[r].location # req[r].slug
                  /\ req[r].location \in validPages

\* C6: no step removes a slug from the in-memory registry, and right after
\* addValidPage(t) the slug of t is in it.
C6_RegistryOnlyGrows ==
  [][/\ validPages \subseteq validPages'
     /\ regLog'.op = "addValidPage"
          => titleToWikipediaSlug(regLog'.title) \in validPages']_vars

\* C6 happens: a later registry call found earlier slugs and added more.
C6_Witness ==
  /\ regLog.op = "addSuggestionsToValid"
  /\ regLog.inserted > 0
  /\ Cardinality(validPages) > regLog.inserted

\* C7 (as the specification states it): after a registry call that met no
\* disk error, a restart would load exactly the in-memory set.
C7_FileEqualsMemoryAfterEveryCall ==
  [][(regLog'.op # "none" /\ ~regLog'.failed)
       => loadValidPages(validPagesFile') = validPages']_vars

\* C7 (amended): after a registry call that inserted a slug and met no disk
\* error the file holds exactly the in-memory set; addValidPage writes the
\* file once if the slug was absent and not at all otherwise;
\* addSuggestionsToValid writes it once if it inserted a slug and not at all
\* otherwise; a call that does not write leaves the file as it was.
C7_WriteThroughOnChange ==
  [][regLog'.op # "none"
       => /\ (regLog'.inserted > 0 /\ ~regLog'.failed)
               => /\ validPagesFile'.exists /\ validPagesFile'.ok
                  /\ validPagesFile'.pages = validPages'
          /\ regLog'.op = "addValidPage"
               => regLog'.saves =
                    (IF titleToWikipediaSlug(regLog'.title) \in validPages
                     THEN 0 ELSE 1)
          /\ regLog'.op = "addSuggestionsToValid"
               => regLog'.saves = (IF validPages' # validPages THEN 1 ELSE 0)
          /\ regLog'.saves = 0 => validPagesFile' = validPagesFile]_vars

\* C7 happens: one search inserted two slugs and wrote the file once.
C7_Witness ==
  /\ regLog.op = "addSuggestionsToValid"
  /\ regLog.inserted = 2 /\ regLog.saves = 1 /\ ~regLog.failed
  /\ validPagesFile.pages = validPages

\* The entry file that the last cache call looked at.
RetFile == disk[getCacheFilePath(ret.key, ret.bin)]

\* C8: isCached answers true exactly when the entry file exists and its age
\* is below maxAgeHours.
C8_IsCachedIffFresh ==
  ret.op = "isCached"
    => (ret.out = "true" <=> (RetFile.exists /\ now - RetFile.mtime < ret.hours))

\* C8 happens: an entry written in this very hour is reported not cached
\* with maxAgeHours = 0.
C8_Witness ==
  /\ ret.op = "isCached" /\ ret.hours = 0 /\ ret.out = "false"
  /\ RetFile.exists /\ RetFile.mtime = now

\* C9 (as the specification states it): getCache does not throw; it returns
\* null for a key without entry and for an entry that cannot be read or
\* parsed.
C9_GetCacheNeverThrows ==
  ret.op = "getCache"
    => /\ ret.out \in {"value", "null"}
       /\ (~RetFile.exists \/ ~RetFile.ok) => ret.out = "null"

\* C10 (as the specification states it): no cache operation lets an error
\* of the file system reach its caller.
C10_NoCacheCallThrows ==
  ret.op \in {"isCached", "getCache", "setCache", "getCacheStats",
              "clearExpiredCache"}
    => ret.out # "throw"

\* C11: after setCache of a text entry has returned without an error,
\* getCache of the key returns the content just written and isCached is
\* true for every positive maxAgeHours, whatever the key held before.
C11_SetCacheOverwrites ==
  (ret.op = "setCache" /\ ~ret.bin /\ ret.out = "void" /\ ~ret.logged)
    => /\ getCache(ret.key, FALSE, FALSE).out = "value"
       /\ getCache(ret.key, FALSE, FALSE).val = ret.val
       /\ \A h \in MaxAges \ {0} :
            isCached(ret.key, h, FALSE, FALSE, FALSE) = "true"

\* C11 happens: the second of the two contents has been written over an
\* entry of the key and is the one on disk.
C11_Witness ==
  /\ ret.op = "setCache" /\ ~ret.bin /\ ret.out = "void" /\ ~ret.logged
  /\ ret.key = Key("wiki", <<"A">>)
  /\ ret.val.heads = <<"newer">>
  /\ RetFile.val = ret.val

\* C12 (as the specification states it): after setCache of a binary entry
\* has returned without an error, getCache returns the buffer and the
\* metadata map that were written; a buffer without sidecar is returned
\* with empty metadata.
C12_BinaryRoundTrip ==
  /\ (ret.op = "setCache" /\ ret.bin /\ ret.out = "void" /\ ~ret.logged)
       => /\ getCache(ret.key, TRUE, FALSE).out = "value"
          /\ getCache(ret.key, TRUE, FALSE).val = ret.val
          /\ getCache(ret.key, TRUE, FALSE).meta = ret.meta
  /\ (ret.op = "getCache" /\ ret.bin /\ RetFile.exists /\ RetFile.ok
      /\ ~disk[getCacheFilePath(metaKey(ret.key), FALSE)].exists)
       => /\ ret.out = "value" /\ ret.val = RetFile.val
          /\ ret.meta = EmptyMetadata

\* C13 (as the specification states it): a buffer that the server wrote is
\* paired with a sidecar of the same write.
C13_BinaryEntryAtomic ==
  \A k \in ImageKeys :
    LET bin == disk[getCacheFilePath(k, TRUE)]
        meta == disk[getCacheFilePath(metaKey(k), FALSE)]
    IN  (bin.exists /\ bin.mtime >= 0)
          => meta.exists /\ meta.ok /\ meta.mtime = bin.mtime

\* The step is the arrival of an image request on connection r.
ImageRequestStep(r) ==
  /\ Free(req[r])
  /\ req'[r] # req[r]
  /\ req'[r].kind = "image"

ImageBin(slug) == disk[getCacheFilePath(Key("image", slug), TRUE)]
ImageMeta(slug) == disk[getCacheFilePath(metaKey(Key("image", slug)), FALSE)]
PromptFile(slug) == disk[getCacheFilePath(promptKey(slug), FALSE)]

\* A buffer younger than 168 hours that getCache can return is on disk.
FreshImage(slug) ==
  /\ ImageBin(slug).exists /\ ImageBin(slug).ok
  /\ now - ImageBin(slug).mtime < ImageMaxAgeHours
  /\ ~ImageMeta(slug).exists \/ ImageMeta(slug).ok

\* C14 (as the specification states it): an image request with an allowed
\* extension that finds no cached image younger than 168 hours and no
\* prompt record is answered 404, calls no collaborator and writes nothing.
C14_NoPromptRecordAnswers404 ==
  [][\A r \in Reqs :
       ( /\ ImageRequestStep(r)
         /\ extToLowerCase(req'[r].img.ext) \in allowedExtensions
         /\ ~( /\ ImageBin(req'[r].slug).exists
               /\ now - ImageBin(req'[r].slug).mtime < ImageMaxAgeHours )
         /\ ~PromptFile(req'[r].slug).exists )
       => /\ req'[r].status = 404 /\ req'[r].pc = "done"
          /\ req'[r].calls = NoCalls
          /\ disk' = disk]_vars

\* C15 (as the specification states it): an image request that arrives
\* while the prompt record of its slug says ready = false is answered 202
\* "generating", calls no collaborator and changes no file.
C15_GeneratingAnswers202 ==
  [][\A r \in Reqs :
       ( /\ ImageRequestStep(r)
         /\ extToLowerCase(req'[r].img.ext) \in allowedExtensions
         /\ PromptFile(req'[r].slug).exists /\ PromptFile(req'[r].slug).ok
         /\ ~PromptFile(req'[r].slug).val.ready )
       => /\ req'[r].status = 202 /\ req'[r].pc = "done"
          /\ req'[r].body = <<Frag("generating", NoPage)>>
          /\ req'[r].calls = NoCalls
          /\ disk' = disk]_vars

\* C15 (amended): the same, for a record younger than 168 hours and a
\* request that finds no servable cached image younger than 168 hours.
C15_GeneratingAnswers202UnlessCached ==
  [][\A r \in Reqs :
       ( /\ ImageRequestStep(r)
         /\ extToLowerCase(req'[r].img.ext) \in allowedExtensions
         /\ PromptFile(req'[r].slug).exists /\ PromptFile(req'[r].slug).ok
         /\ ~PromptFile(req'[r].slug).val.ready
         /\ now - PromptFile(req'[r].slug).mtime < PromptMaxAgeHours
         /\ ~FreshImage(req'[r].slug) )
       => /\ req'[r].status = 202 /\ req'[r].pc = "done"
          /\ req'[r].body = <<Frag("generating", NoPage)>>
          /\ req'[r].calls = NoCalls
          /\ disk' = disk]_vars

\* C15 happens: a request was answered 202 for a record of this run.
C15_Witness ==
  \E r \in Reqs : /\ req[r].kind = "image" /\ req[r].status = 202
                  /\ PromptFile(req[r].slug).mtime >= 0
                  /\ ~PromptFile(req[r].slug).val.ready

\* A prompt record that getImagePrompt reports ready is on disk.
ReadyPrompt(slug) ==
  /\ PromptFile(slug).exists /\ PromptFile(slug).ok
  /\ now - PromptFile(slug).mtime < PromptMaxAgeHours
  /\ PromptFile(slug).val.ready /\ PromptFile(slug).val.prompt # <<>>

\* The step is the answer of generateWikiImage with a buffer, served.
ImageServedStep(r) ==
  /\ req[r].pc = "image"
  /\ req'[r].pc = "done" /\ req'[r].status = 200

C18_ReadyStaysReady ==
  [][\A slug \in ImageSlugs :
       ( /\ PromptFile(slug).exists /\ PromptFile(slug).ok
         /\ PromptFile(slug).val.ready /\ PromptFile(slug).val.prompt # <<>> )
       => /\ PromptFile(slug)'.exists /\ PromptFile(slug)'.ok
          /\ PromptFile(slug)'.val.ready
          /\ PromptFile(slug)'.val.prompt # <<>>]_vars

\* C19 (as the specification states it): when generateBatchImagePrompts has
\* returned for a non-empty list, every reference of the list has a record
\* with ready = true and a non-empty prompt.
C19_EveryReferenceGetsAPrompt ==
  \A r \in Reqs :
    (req[r].kind = "batch" /\ req[r].pc = "done" /\ req[r].status = 200)
    => \A i \in 1..Len(req[r].img.refs) :
         /\ PromptFile(req[r].img.refs[i]).exists
         /\ PromptFile(req[r].img.refs[i]).ok
         /\ PromptFile(req[r].img.refs[i]).val.ready
         /\ PromptFile(req[r].img.refs[i]).val.prompt # <<>>

\* The image placeholder that the section text answered for the i-th
\* heading embeds; processMarkdownForWikiLinks, were it reached, would
\* store its context under img_context_{slug} and no prompt record.
sectionImage(i) == IF i % 2 = 1 THEN <<"A">> ELSE <<"a">>

\* C20 (as the specification states it): when a page-generation request
\* whose calls all succeeded has finished, an image request for any
\* placeholder of its sections finds a prompt record (generating or ready).
C20_PlaceholdersHavePromptRecords ==
  \A r \in Reqs :
    LET q == req[r]
    IN  ( /\ q.kind = "page" /\ q.pc = "done"
          /\ ~q.hit /\ ~q.wasValid
          /\ q.isValidContent = "true" /\ q.properSlug = q.slug
          /\ q.calls.opening = 1 /\ q.gpc \in {"resolved", "rejected"}
          /\ q.infoboxS = "ok" /\ q.failedCalls = 0 )
        => \A i \in 1..Len(q.sections) :
             getImagePrompt(sectionImage(i), FALSE).out \in {"generating", "ready"}

\* The position of the first element of the content that resolves to slug.
firstOccurrence(htmlContent, slug) ==
  CHOOSE i \in 1..Len(htmlContent) :
    /\ removeExtension(filenameOf(htmlContent[i])) = slug
    /\ \A j \in 1..(i - 1) : removeExtension(filenameOf(htmlContent[j])) # slug

\* The list has exactly one entry for each slug of the content, and the
\* entry carries the alt (a figure without alt: the caption) and, for a
\* figure, the caption of the first element that resolves to the slug.
OnePerSlugFirstKept(images, htmlContent) ==
  \A k \in 1..Len(htmlContent) :
    LET slug == removeExtension(filenameOf(htmlContent[k]))
        first == htmlContent[firstOccurrence(htmlContent, slug)]
    IN  /\ Cardinality({i \in 1..Len(images) : images[i].slug = slug}) = 1
        /\ \A i \in 1..Len(images) :
             images[i].slug = slug
             => /\ images[i].alt = (IF altOf(first) # NoText THEN altOf(first)
                                    ELSE figcaptionOf(first))
                /\ tagOf(first) = "figure"
                   => images[i].caption = figcaptionOf(first)

\* C21 (as the specification states it): the list that
\* extractImageReferences returns has exactly one entry per slug of the
\* content, carrying the caption/alt of the slug's first occurrence.
C21_OneReferencePerSlugFirstKept ==
  ret.op = "extractImageReferences" => OnePerSlugFirstKept(ret.out, ret.arg)

\* C21 for the equivalent that deduplicates: the same of the list that
\* mergeInfoboxImageReferences returns for a page without infobox image.
C21_MergedOneReferencePerSlugFirstKept ==
  (ret.op = "mergeInfoboxImageReferences" /\ ret.arg[2] = NoInfobox)
    => OnePerSlugFirstKept(ret.out, ret.arg[1])

\* C22 (as the specification states it): every link of the table of
\* contents targets the id injected into its own heading.
C22_TocLinksTargetTheirHeadings ==
  ret.op = "generateTableOfContents"
    => \A link \in ret.out.toc : ret.out.ids[link.pos] = link.id

\* The numbering of C22's example, History (2), Origins (3), Legacy (2), is
\* 1, 1.1, 2 as stated; only the ids differ.
C22_ExampleNumbering ==
  (ret.op = "generateTableOfContents" /\ ret.arg = <<"##", "###", "##">>)
    => {<<l.pos, l.number>> : l \in ret.out.toc}
         = {<<1, <<1>>>>, <<2, <<1, 1>>>>, <<3, <<2>>>>}

\* The words of a title: its maximal runs of characters other than spaces.
RECURSIVE wordsOf(_)
wordsOf(s) ==
  LET t == trimStart(s)
      n == IF \E i \in 1..Len(t) : t[i] = " "
           THEN (CHOOSE i \in 1..Len(t) :
                   t[i] = " " /\ \A j \in 1..(i - 1) : t[j] # " ") - 1
           ELSE Len(t)
  IN  IF t = <<>> THEN <<>>
      ELSE <<SubSeq(t, 1, n)>> \o wordsOf(SubSeq(t, n + 1, Len(t)))

caseFolded(ws) ==
  [i \in 1..Len(ws) |-> [j \in 1..Len(ws[i]) |-> toLowerCase(ws[i][j])]]

SingleSpaces(title) ==
  \A i \in 1..(Len(title) - 1) : ~(title[i] = " " /\ title[i + 1] = " ")

\* C23 (as the specification states it): for a title of letters and single
\* spaces, the round trip through the slug gives the same words, up to the
\* case of their letters.
C23_RoundTripKeepsWords ==
  (ret.op = "slugRoundTrip" /\ SingleSpaces(ret.arg))
    => caseFolded(wordsOf(ret.out)) = caseFolded(wordsOf(ret.arg))

\* C23 holds of the variant that keeps the casing, and of both variants for
\* titles of ASCII letters.
C23_RoundTripKeepsAsciiWords ==
  ( /\ ret.op = "slugRoundTrip" /\ SingleSpaces(ret.arg)
    /\ variant = "preserve" \/ \A i \in 1..Len(ret.arg) : ret.arg[i] # "é" )
    => caseFolded(wordsOf(ret.out)) = caseFolded(wordsOf(ret.arg))

\* C24 (as the specification states it): one pass of slug -> title -> slug
\* reaches a fixed point, and so does the title obtained from it.
C24_NormalizationIdempotent ==
  ret.op = "normalizeSlug"
    => /\ normalizeSlug(ret.out.slug) = ret.out.slug
       /\ normalizeToTitle(ret.out.title) = ret.out.title

\* C24 holds of the variant that keeps the casing.
C24_PreservingNormalizationIdempotent ==
  (ret.op = "normalizeSlug" /\ variant = "preserve")
    => /\ normalizeSlug(ret.out.slug) = ret.out.slug
       /\ normalizeToTitle(ret.out.title) = ret.out.title

\* C25: a request issues its opening and section calls in the step in
\* which the outline call (or, the outline already there, the infobox call
\* awaited with it) completes successfully, one section call per section of
\* the outline; and the assembled article has, at every index, the heading of
\* the outline at that index followed by the answer given for that heading.
C25_OutlineFirstAssemblyInOutlineOrder ==
  [][\A r \in Reqs :
       /\ ( \/ req'[r].calls.opening > req[r].calls.opening
            \/ req'[r].calls.section > req[r].calls.section )
          => /\ req[r].gpc = "step1" /\ req'[r].gpc = "step2"
             /\ req[r].calls.outline = 1
             /\ req'[r].outline = "ok"
             /\ req'[r].calls.opening = 1
             /\ req'[r].calls.section = Len(req'[r].sections)
       /\ (req[r].gpc = "step2" /\ req'[r].gpc \in {"resolved", "rejected"}
           /\ req'[r].failedCalls = req[r].failedCalls)
          => /\ Len(req'[r].markdownContent) = Len(req[r].sections)
             /\ \A i \in 1..Len(req[r].sections) :
                  req'[r].markdownContent[i] =
                    <<"##", req[r].sections[i],
                      sectionAnswer(req[r].sections[i])>>]_vars

\* C25 happens: an article of two sections was assembled.
C25_Witness ==
  \E r \in Reqs : /\ req[r].kind = "page"
                  /\ Len(req[r].markdownContent) = 2
                  /\ req[r].calls.section = 2 /\ req[r].failedCalls = 0

\* The fragments of kind k in the body sent so far.
Sent(q, k) == Cardinality({i \in 1..Len(q.body) : q.body[i].kind = k})

\* C26: when an outline, infobox, opening or section call of a page request
\* fails, the request is in Error after that step (ended, its last fragment
\* the error fragment, unless an earlier failure ended it already), no article
\* body has been sent, and the step writes no cache entry and no registry
\* entry.
C26_GenerationAllOrNothing ==
  [][\A r \in Reqs :
       ( /\ req[r].kind = "page" /\ req[r].calls.outline = 1
         /\ req'[r].failedCalls > req[r].failedCalls )
       => /\ req'[r].pc = "done" /\ req'[r].ended
          /\ Sent(req'[r], "errorWithoutDoctype") = 1
          /\ Sent(req'[r], "pageWithoutDoctype") = 0
          /\ req'[r].pageResult = NoPage
          /\ Untouched]_vars

\* C26 happens: a section call failed after the opening call had answered.
C26_Witness ==
  \E r \in Reqs : /\ req[r].kind = "page" /\ req[r].pc = "done"
                  /\ req[r].calls.section >= 1 /\ req[r].failedCalls = 1
                  /\ req[r].gpc = "rejected"
                  /\ Len(req[r].markdownContent) = 0
                  /\ Sent(req[r], "errorWithoutDoctype") = 1

\* C27: a call of a page request that fails while the request is open ends
\* it: with status 500 and the full error page as the whole body when no
\* header had been sent, and otherwise with the error fragment appended to
\* what was written, the status as it was and one preamble in the body; an
\* ended request sends nothing more.
C27_ErrorIsTerminal ==
  [][\A r \in Reqs :
       /\ ( /\ req[r].kind = "page" /\ req[r].pc \notin {"idle", "done"}
            /\ req'[r].failedCalls > req[r].failedCalls )
          => /\ req'[r].pc = "done" /\ req'[r].ended
             /\ IF req[r].headersSent
                THEN /\ req'[r].body =
                          Append(req[r].body, Frag("errorWithoutDoctype", NoPage))
                     /\ req'[r].status = req[r].status
                     /\ Sent(req'[r], "doctype") = 1
                ELSE /\ req'[r].body = <<Frag("errorPage", NoPage)>>
                     /\ req'[r].status = 500
       /\ (req[r].kind = "page" /\ req[r].pc = "done" /\ ~Free(req[r]))
          => /\ req'[r].body = req[r].body
             /\ req'[r].status = req[r].status
             /\ req'[r].pc = "done" /\ req'[r].ended]_vars

\* C27 happens: a request failed after its preamble was written, and is
\* ended with the error fragment and no status set.
C27_Witness ==
  \E r \in Reqs :
    /\ req[r].kind = "page" /\ req[r].pc = "done" /\ req[r].failedCalls >= 1
    /\ req[r].status = 200
    /\ req[r].body = <<Frag("doctype", NoPage), Frag("errorWithoutDoctype", NoPage)>>

\* The other case of C27 happens: a request failed before any header.
C27_WitnessBeforeHeaders ==
  \E r \in Reqs :
    /\ req[r].kind = "page" /\ req[r].pc = "done" /\ req[r].failedCalls = 1
    /\ req[r].status = 500 /\ req[r].calls.outline = 0
    /\ req[r].body = <<Frag("errorPage", NoPage)>>

\* C28 (as the specification states it): when two requests for one
\* uncached slug that were in flight together have both finished, all their
\* calls having answered, each has issued its own outline, infobox, opening
\* and section calls, the cache holds a page under wiki_{slug} and the
\* registry holds the slug.
C28_BothGenerateLastWriteWins ==
  ( \A r \in Conns :
      /\ req[r].kind = "page" /\ req[r].pc = "done" /\ Free(req[r])
      /\ ~req[r].hit /\ req[r].failedCalls = 0 )
  => /\ \A r \in Conns :
          /\ req[r].calls.outline = 1 /\ req[r].calls.infobox = 2
          /\ req[r].calls.opening = 1
          /\ req[r].calls.section = Len(req[r].sections)
     /\ disk[WikiFile(SharedSlug)].exists
     /\ \E r \in Conns :
          /\ req[r].pageResult # NoPage
          /\ disk[WikiFile(SharedSlug)].val = req[r].pageResult
     /\ SharedSlug \in validPages

\* The position of effect e in the order of a request's effects, 0 if absent.
Position(effects, e) ==
  IF \E i \in 1..Len(effects) : effects[i] = e
  THEN CHOOSE i \in 1..Len(effects) : effects[i] = e
  ELSE 0

\* C29 (as the specification states it): a finished page-generation request
\* whose calls all succeeded has written the page to the cache, then
\* registered the title, then sent the body and ended the response.
C29_CacheThenRegistryThenResponse ==
  \A r \in Reqs :
    LET q == req[r]
    IN  ( /\ q.kind = "page" /\ q.pc = "done" /\ Free(q)
          /\ ~q.hit /\ q.calls.opening = 1 /\ q.failedCalls = 0 )
        => /\ 0 < Position(q.effects, "setCache")
           /\ Position(q.effects, "setCache") < Position(q.effects, "addValidPage")
           /\ Position(q.effects, "addValidPage") < Position(q.effects, "write")
           /\ Position(q.effects, "write") < Position(q.effects, "end")

\* C30: a page request that has issued a generation call has status 200 and
\* a body that starts with the one document preamble, followed, once the
\* request is done, by exactly one fragment, the completed page or the error
\* fragment; a request answered 404, 301 or 500 has issued no generation call
\* and its body is that one answer; an ended request's body stays as it is.
C30_StreamingDiscipline ==
  [][\A r \in Reqs :
       LET q == req'[r]
       IN  /\ (q.kind = "page" /\ q.calls.outline >= 1)
              => /\ q.status = 200 /\ q.headersSent
                 /\ Len(q.body) >= 1 /\ q.body[1] = Frag("doctype", NoPage)
                 /\ Sent(q, "doctype") = 1
                 /\ IF q.pc = "done"
                    THEN /\ Len(q.body) = 2 /\ q.ended
                         /\ q.body[2].kind
                              \in {"pageWithoutDoctype", "errorWithoutDoctype"}
                    ELSE Len(q.body) = 1 /\ ~q.ended
           /\ (q.kind = "page" /\ q.status \in {404, 301, 500})
              => /\ GenerationCalls(q) = 0
                 /\ Len(q.body) = 1 /\ q.ended /\ q.pc = "done"
                 /\ Sent(q, "doctype") = 0
           /\ (req[r].kind = "page" /\ req[r].ended /\ ~Free(req[r]))
              => q.body = req[r].body /\ q.ended]_vars

\* C30 happens: a request wrote the preamble, issued all its calls and was
\* ended with one further fragment.
C30_Witness ==
  \E r \in Reqs :
    /\ req[r].kind = "page" /\ req[r].pc = "done" /\ req[r].ended
    /\ req[r].calls.section >= 1 /\ req[r].failedCalls = 0
    /\ Len(req[r].body) = 2 /\ req[r].body[1].kind = "doctype"

\* What the page shows of an element.
Shown(el) == <<el.src, el.display, el.classList>>

\* C31: a probe answered 202 leaves the element as it is and schedules one
\* retry 1000 ms later, whose firing sends one probe; a probe answered with
\* another 2xx status starts the load of the image, whose completion swaps
\* the source in (or, failing, hides the element); a probe answered with any
\* other status hides the element; after an answer other than 202 no probe
\* is sent and no timer is pending.
C31_PollingProtocol ==
  [][\A e \in Elements :
       LET el == req[e]
           el2 == req'[e]
       IN  /\ (el.phase = "probing" /\ el2 # el)
              => /\ el2.status = 202 <=> el2.phase = "waiting"
                 /\ (responseOk(el2.status) /\ el2.status # 202)
                    => el2.phase = "loading"
                 /\ (el2.status # 0 /\ ~responseOk(el2.status))
                    => el2.phase = "error"
           /\ (el.phase = "probing" /\ el2.phase = "waiting")
              => /\ el2.timer = PollMillis /\ el.timer = 0
                 /\ Shown(el2) = Shown(el)
                 /\ el2.probes = el.probes /\ el2.loads = el.loads
           /\ (el.phase = "waiting" /\ el2 # el)
              => /\ el2.phase = "probing" /\ el2.probes = el.probes + 1
                 /\ el2.timer = 0 /\ Shown(el2) = Shown(el)
           /\ (el.phase = "probing" /\ el2.phase = "loading")
              => /\ el2.loads = 1 /\ el2.timer = 0
                 /\ Shown(el2) = Shown(el)
           /\ (el.phase = "loading" /\ el2 # el)
              => \/ /\ el2.phase = "loaded" /\ el2.src = dataSrc(e)
                    /\ el2.display = "" /\ el2.classList = {"loaded"}
                 \/ /\ el2.phase = "error" /\ el2.display = "none"
                    /\ el2.src = NoSrc /\ el2.classList = {"error"}
           /\ (el.phase = "probing" /\ el2.phase = "error")
              => /\ el2.display = "none" /\ el2.src = NoSrc
                 /\ el2.classList = {"error"} /\ el2.loads = 0
           /\ el.phase \in {"loading", "loaded", "error"}
              => /\ el2.probes = el.probes /\ el2.timer = 0
                 /\ el2.phase \in {"loading", "loaded", "error"}
           /\ el2.probes > el.probes
              => el.phase \in {"observed", "waiting"}]_vars

\* An element whose probe was answered 202 until the last probe the model
\* allows, then 2xx, and whose image loaded.
C31_Witness ==
  \E e \in Elements :
    /\ req[e].kind = "lazyImage" /\ req[e].phase = "loaded"
    /\ req[e].probes = MaxProbes /\ req[e].src = dataSrc(e)

\* A query the search route does not look up: absent, not a string, or
\* shorter than two characters once trimmed.
TooShortQuery(q) == q[1] = "undefined" \/ q[1] # "string" \/ Len(trim(q[2])) < 2

\* C32: a search request whose query is absent, not a string, or shorter than
\* two characters after trimming is answered at once with 200 and the empty
\* JSON array; no language-model call is made and the registry, its file and
\* the cache stay as they were.
C32_ShortQueryAnswersEmpty ==
  [][\A r \in Reqs :
       (req'[r].kind = "search" /\ TooShortQuery(req'[r].q) /\ req'[r] # req[r])
       => /\ req'[r].pc = "done" /\ req'[r].ended
          /\ req'[r].status = 200 /\ req'[r].json = <<>>
          /\ req'[r].body = <<Frag("json", NoPage)>>
          /\ req'[r].calls = NoCalls /\ req'[r].failedCalls = 0
          /\ validPages' = validPages /\ validPagesFile' = validPagesFile
          /\ regLog' = NoLog /\ disk' = disk /\ dirExists' = dirExists]_vars

\* A query of a space and a letter was answered [] without a call, the
\* registry holding pages.
C32_Witness ==
  \E r \in Reqs :
    /\ req[r].kind = "search" /\ req[r].pc = "done" /\ req[r].calls = NoCalls
    /\ req[r].q = <<"string", <<" ", "a">>>> /\ req[r].json = <<>>
    /\ validPages # {}

\* The request on r was made by following a redirect.
Followed(q) == q.kind = "page" /\ q.hops >= 1

\* C33: a request made by following a 301 calls neither validation nor
\* canonicalization and is not answered with another 301.
C33_RedirectChainOneHop ==
  \A r \in Reqs :
    Followed(req[r])
    => /\ req[r].calls.validate = 0 /\ req[r].calls.rewrite = 0
       /\ req[r].status # 301

\* C33, the follow-up finds the canonical slug registered: a followed
\* request that got past the cache check was for a registered slug.
C33_FollowUpFindsSlugRegistered ==
  \A r \in Reqs :
    (Followed(req[r]) /\ ~req[r].hit /\ req[r].slug # <<>>) => req[r].wasValid

\* C33 where titleToWikipediaSlug strips everything but word characters: the
\* canonical slug holds no percent sign and the chain ends after one hop.
C33_OneHopWithoutPercent ==
  \A r \in Reqs :
    (variant = "titlecase" /\ Followed(req[r]))
    => /\ req[r].calls.validate = 0 /\ req[r].calls.rewrite = 0
       /\ req[r].status # 301 /\ req[r].hops = 1
       /\ (req[r].hit \/ req[r].wasValid)

\* C34 (as the specification states it): when a page-generation request
\* whose calls all succeeded has finished, the page has been rendered and
\* the slugs its See-also entries link to are in the registry.
C34_LinksOfThePageAreRegistered ==
  \A r \in Reqs :
    LET q == req[r]
        topic == wikipediaSlugToTitle(q.slug)
    IN  ( /\ q.kind = "page" /\ q.pc = "done" /\ Free(q)
          /\ ~q.hit /\ q.calls.opening = 1 /\ q.failedCalls = 0 )
        => /\ q.pageResult # NoPage
           /\ titleToWikipediaSlug(topic \o Disambiguation) \in validPages
           /\ titleToWikipediaSlug(RelatedTopics) \in validPages

\* C34, the linked values of the infobox: the slug of every link that
\* formatInfoboxValue renders is one that the route registers for the value.
C34_InfoboxLinksAreRegistered ==
  ret.op = "renderInfoboxValue"
  => \A i \in 1..Len(ret.out.links) : ret.out.links[i] \in ret.out.registered

\* C34, the linked values of the infobox, with the case-preserving slugs and
\* values that neither start nor end with a space.
C34_TrimmedInfoboxLinksAreRegistered ==
  ( /\ ret.op = "renderInfoboxValue" /\ variant = "preserve"
    /\ \A i \in 1..Len(ret.arg) : trim(ret.arg[i]) = ret.arg[i] )
  => \A i \in 1..Len(ret.out.links) : ret.out.links[i] \in ret.out.registered

TerminalKinds ==
  {"cached", "notFound", "redirect", "pageWithoutDoctype", "errorPage",
   "errorWithoutDoctype"}
Terminals(q) == {i \in 1..Len(q.body) : q.body[i].kind \in TerminalKinds}

\* C37: a page request that is being served is answered in the end, and
\* what it started in the background comes to rest; an ended request carries
\* exactly one terminal answer, the last fragment of its body, and a request
\* not yet ended carries none; no call site issues its call twice for one
\* request (the infobox has two call sites); the step in which the client
\* goes away changes nothing else of the request.
C37_OneTerminalOutcome ==
  /\ \A r \in Reqs :
       (req[r].kind = "page" /\ ~Free(req[r]))
       ~> (req[r].kind = "page" /\ req[r].ended /\ Free(req[r]))
  /\ [][\A r \in Reqs :
          LET q == req'[r]
          IN  q.kind = "page"
              => /\ Cardinality(Terminals(q)) = (IF q.ended THEN 1 ELSE 0)
                 /\ q.ended => Terminals(q) = {Len(q.body)}
                 /\ q.ended <=> q.pc = "done"
                 /\ q.calls.validate <= 1 /\ q.calls.rewrite <= 1
                 /\ q.calls.outline <= 1 /\ q.calls.infobox <= 2
                 /\ q.calls.opening <= 1 /\ q.calls.section <= Len(q.sections)
                 /\ (req[r].connected /\ ~q.connected)
                    => q = [req[r] EXCEPT !.connected = FALSE]]_vars

\* A request whose client went away has issued its opening call, has seen
\* every call answer and has been ended by the route.
C37_Witness ==
  \E r \in Reqs :
    /\ req[r].kind = "page" /\ ~req[r].connected
    /\ req[r].calls.opening = 1 /\ req[r].ended /\ Free(req[r])
    /\ req[r].failedCalls = 0

\* C38: a call of isCached or getCache that returns leaves every cache file
\* and the registry as they were; getCache returns the content of a readable
\* text entry whatever its age, also when isCached has just called it
\* expired; an existing file changes only in a step of setCache or
\* clearExpiredCache (or when another process removes it under isCached).
C38_ReadsLeaveEntriesAlone ==
  [][LET file == getCacheFilePath(ret'.key, ret'.bin)
     IN  /\ (ret'.op \in {"isCached", "getCache"} /\ ret'.out # "throw")
            => /\ disk' = disk
               /\ validPagesFile' = validPagesFile /\ validPages' = validPages
         /\ (ret'.op = "getCache" /\ ret'.out # "throw" /\ ~ret'.bin
               /\ disk[file].exists /\ disk[file].ok)
            => ret'.out = "value" /\ ret'.val = disk[file].val
         /\ (ret'.op = "isCached" /\ ret'.out = "false" /\ disk[file].exists)
            => /\ now - disk[file].mtime >= ret'.hours
               /\ disk'[file] = disk[file]
         /\ \A f \in FileNames :
              (disk[f].exists /\ disk'[f] # disk[f])
              => \/ ret'.op \in {"setCache", "clearExpiredCache"}
                 \/ ret'.op = "isCached" /\ ret'.out = "throw"]_vars

\* getCache has returned the content of an entry that is older than a day.
C38_Witness ==
  LET file == getCacheFilePath(ret.key, FALSE)
  IN  /\ ret.op = "getCache" /\ ~ret.bin /\ ret.out = "value"
      /\ disk[file].exists /\ now - disk[file].mtime >= DefaultMaxAgeHours
      /\ ret.val = disk[file].val

\* C38, the routes: no step of a page or search request, and no passing of
\* time, removes a cache file or the registry file.
C38_RequestsRemoveNothing ==
  [][/\ \A f \in FileNames : disk[f].exists => disk'[f].exists
     /\ validPagesFile.exists => validPagesFile'.exists]_vars

\* C39 (as the specification states it): clearExpiredCache removes cache
\* files older than its cutoff and nothing else, and the registry file, once
\* written, is present after every cache operation.
C39_SweepKeepsTheRegistryFile ==
  [][/\ ret'.op = "clearExpiredCache"
        => \A f \in FileNames :
             disk'[f] # disk[f]
             => /\ disk[f].exists /\ ~disk'[f].exists
                /\ disk[f].mtime < now - ret'.hours
     /\ validPagesFile.exists => validPagesFile'.exists]_vars

\* C39, what the sweep does: it removes the files older than its cutoff, the
\* registry file among them, and no other.
C39_SweepRemovesWhatIsOld ==
  [][/\ ret'.op = "clearExpiredCache"
        => /\ \A f \in FileNames :
                disk'[f] # disk[f]
                => /\ disk[f].exists /\ ~disk'[f].exists
                   /\ disk[f].mtime < now - ret'.hours
           /\ validPages' = validPages
           /\ validPagesFile' # validPagesFile
              => /\ validPagesFile.exists /\ ~validPagesFile'.exists
                 /\ validPagesFile.mtime < now - ret'.hours
     /\ (validPagesFile.exists /\ ~validPagesFile'.exists)
        => ret'.op = "clearExpiredCache"]_vars

====
